---- MODULE Spec2Model ----
(***************************************************************************)
(* farn: the case tree builder (create_cases), the validity check of a     *)
(* case (Case.is_valid), the case collection (Cases.filter) and the        *)
(* sampler of one layer (DiscreteSampling).                                *)
(*                                                                         *)
(* Strings of the program are modelled as follows:                         *)
(*   - a parameter name is a string; "" is a missing name (None or "");    *)
(*   - a parameter value is an integer; 0 is the falsy value               *)
(*     (`not parameter.value` is true for it, as for None, "" and False);  *)
(*   - a layer name is <<"layer", level>>, a case name is                  *)
(*     <<layer name, index>> (the sampler's "<layer>_<index>"), a path is  *)
(*     the sequence of case names below the root case directory;           *)
(*   - a filter expression is [name, op, val]: "<name> <op> <val>" with op *)
(*     "==" or "!=", or the bare name (op "truth"); NoFilter is the        *)
(*     missing or empty expression.  Python's True == 1, so the boolean    *)
(*     field is_leaf is looked up as 1 or 0.                               *)
(***************************************************************************)
EXTENDS Integers, Sequences, FiniteSets, TLC

VARIABLES
    layers,                    \* create_cases: the local list of layers
    valid_only,                \* create_cases: the argument valid_only
    cases,                     \* create_cases: the list of cases collected
    number_of_invalid_cases,   \* create_cases: counter of the cases dropped
    stack,                     \* the active calls of create_next_level_cases
    pc,                        \* position of the program
    filter_args,               \* Cases.filter: the arguments of the call
    filtered_cases,            \* Cases.filter: the collection returned
    probe,                     \* Case.is_valid: the case the property is read of
    result,                    \* Case.is_valid: the value returned
    available_vars,            \* Case.is_valid: names bound in the evaluation scope
    validity_log,              \* Case.is_valid: which message was logged
    sampling,                  \* DiscreteSampling: the fields of the sampler object
    call,                      \* DiscreteSampling: the last method called and its argument
                               \* (of generate_samples: what its engine drew from)
    samples,                   \* DiscreteSampling: the dict returned by generate_samples
    raised,                    \* DiscreteSampling: the exception the last call raised
    logged,                    \* DiscreteSampling: the errors the last call logged
    engine_values,             \* DiscreteSampling: the values the sampling engine returned
    case_names_at,             \* DiscreteSampling: case names read at some indices
    directories,               \* file system: the paths that exist as directories
    files,                     \* file system: the files, each a path with its content
    command_args,              \* execute_command_set: the arguments command_set, batch, test
    cases_registered,          \* execute_command_set: the cases selected
    executions,                \* the shell commands executed, each with its folder, in order
    dispatched,                \* execute_command_set: what the call returned or raised
    batch_processor,           \* AsyncBatchProcessor: its fields and the position of run
    jobs,                      \* JobQueue: the items in the queue
    unfinished_tasks,          \* JobQueue: items put and not yet marked as done
    workers,                   \* Worker threads: position in run and the job taken
    job_log,                   \* what happened to the jobs: started, finished, logged
    objects,                   \* the Parameter objects that exist, each with name and value
    references,                \* for each case, the objects its parameters list refers to
    edit,                      \* the last operation on the parameters of the cases
    finished                   \* create_case_folders, create_param_dict_files,
                               \* create_case_list_files: the call, what it returned
                               \* or raised, and the numbers it logged

vars == <<layers, valid_only, cases, number_of_invalid_cases, stack, pc,
          filter_args, filtered_cases, probe, result, available_vars, validity_log,
          sampling, call, samples, raised, logged, engine_values, case_names_at,
          directories, files, finished,
          command_args, cases_registered, executions, dispatched,
          batch_processor, jobs, unfinished_tasks, workers, job_log,
          objects, references, edit>>

(***************************************************************************)
(* Bounds of the model.                                                    *)
(***************************************************************************)
MaxLayers == 2
MaxSamples == 2
MaxParams == 2

(***************************************************************************)
(* Helpers on sequences.                                                   *)
(***************************************************************************)
Range(s) == {s[i] : i \in 1..Len(s)}

RECURSIVE SeqsUpTo(_, _)
SeqsUpTo(S, n) ==
    IF n = 0 THEN {<<>>}
    ELSE LET shorter == SeqsUpTo(S, n - 1)
         IN  shorter \cup {Append(s, x) : s \in {t \in shorter : Len(t) = n - 1}, x \in S}

BoolToInt(b) == IF b THEN 1 ELSE 0

(***************************************************************************)
(* Parameter, condition, filter expression                                 *)
(***************************************************************************)
Parameter(name, value) == [name |-> name, value |-> value]

NoFilter == [name |-> "", op |-> "", val |-> 0]

NoCondition == [present |-> FALSE, filter |-> NoFilter, action |-> ""]

Condition(filter, action) == [present |-> TRUE, filter |-> filter, action |-> action]

\* `not parameter.value`
Falsy(value) == value = 0

\* re.match("^_", name): the names of the model that start with an underscore
UnderscoreNames == {"_u"}

(***************************************************************************)
(* Case.is_valid                                                           *)
(***************************************************************************)
\* dir(self): the attributes of a Case object that carry data
CaseAttributes ==
    {"case", "layer", "level", "no_of_samples", "index", "path", "is_leaf",
     "condition", "parameters", "command_sets", "status"}

\* The white list of the code: "path" "is_leaf" are adjacent string literals
\* (no comma between them), which Python concatenates to "pathis_leaf".
WhiteList ==
    {"case", "layer", "level", "index", "pathis_leaf", "no_of_samples",
     "condition", "command_sets"}

\* The names the two loops bind in the frame: white-listed attributes, then the
\* parameters with a name that does not start with an underscore.
AvailableVars(c) ==
    (CaseAttributes \cap WhiteList)
        \cup {c.parameters[i].name : i \in {j \in 1..Len(c.parameters) :
                /\ c.parameters[j].name # ""
                /\ c.parameters[j].name \notin UnderscoreNames}}

\* The value a name is bound to: parameters are assigned after the attributes and
\* in list order, so the last parameter of that name wins over the attribute.
LookUp(c, name) ==
    LET at == {i \in 1..Len(c.parameters) : c.parameters[i].name = name}
    IN  IF at # {} /\ name # "" /\ name \notin UnderscoreNames
        THEN c.parameters[CHOOSE i \in at : \A j \in at : j <= i].value
        ELSE CASE name = "index" -> c.index
               [] name = "level" -> c.level
               [] name = "no_of_samples" -> c.no_of_samples
               [] name = "is_leaf" -> BoolToInt(c.is_leaf)
               [] OTHER -> 0    \* case, layer, condition, command_sets: not integers,
                                \* and named by no filter of the model

\* eval(filter_expression) raises NameError for a name that is not bound.
EvalRaises(c, e) == e.name \notin AvailableVars(c)

\* The truth of the value eval(filter_expression) returns (when it returns).
EvalTruth(c, e) ==
    CASE e.op = "==" -> LookUp(c, e.name) = e.val
      [] e.op = "!=" -> LookUp(c, e.name) # e.val
      [] OTHER -> LookUp(c, e.name) # 0

\* filter_expression_evaluates_to_true: False initially, and left so when eval raises
FilterExpressionEvaluatesToTrue(c, e) ==
    IF EvalRaises(c, e) THEN FALSE ELSE EvalTruth(c, e)

\* Mutant of ActionOf: the default action is 'include'.
ActionOfDefaultInclude(condition) ==
    IF condition.action = "" THEN "include" ELSE condition.action

\* action = self.condition.get("_action"); default "exclude"
ActionOf(condition) == IF condition.action = "" THEN "exclude" ELSE condition.action

\* Mutant of NoParameters: the empty parameter list is not checked for.
NoParametersUnchecked(c) == FALSE

\* the formal errors that lead to invalidity
NoParameters(c) == c.parameters = <<>>

NameMissing(c) ==
    \E i \in 1..Len(c.parameters) :
        /\ c.parameters[i].name = ""
        /\ \A j \in 1..(i - 1) : ~Falsy(c.parameters[j].value) /\ c.parameters[j].name # ""

\* Mutant of ValueMissing: a value is missing only when it is None, which no
\* parameter of the model has.
ValueMissingWhenNone(c) == FALSE

ValueMissing(c) ==
    \E i \in 1..Len(c.parameters) :
        /\ c.parameters[i].name # ""
        /\ Falsy(c.parameters[i].value)
        /\ \A j \in 1..(i - 1) : ~Falsy(c.parameters[j].value) /\ c.parameters[j].name # ""

\* The filter expression is evaluated: none of the early returns is taken.
Evaluated(c) ==
    /\ c.condition.present
    /\ c.condition.filter # NoFilter
    /\ ~NoParameters(c)
    /\ ~NameMissing(c)
    /\ ~ValueMissing(c)

\* The final decision from the action and the truth of the expression.
Decide(action, truth) ==
    IF action = "exclude" THEN ~truth
    ELSE IF action = "include" THEN truth
    ELSE TRUE

\* Which of the messages of is_valid is logged last.
ValidityLog(c) ==
    IF ~c.condition.present THEN "none"
    ELSE IF c.condition.filter = NoFilter THEN "no_filter"
    ELSE IF NoParameters(c) THEN "no_parameters"
    ELSE IF NameMissing(c) THEN "name_missing"
    ELSE IF ValueMissing(c) THEN "value_missing"
    ELSE IF EvalRaises(c, c.condition.filter) THEN "evaluation_failed"
    ELSE IF ~EvalTruth(c, c.condition.filter) THEN "evaluated"
    ELSE IF ActionOf(c.condition) = "exclude" THEN "excluded"
    ELSE IF ActionOf(c.condition) = "include" THEN "included"
    ELSE "evaluated"

is_valid(c) ==
    IF ~c.condition.present THEN TRUE
    ELSE IF c.condition.filter = NoFilter THEN TRUE
    ELSE IF NoParameters(c) THEN FALSE
    ELSE IF NameMissing(c) \/ ValueMissing(c) THEN FALSE
    ELSE Decide(ActionOf(c.condition),
                FilterExpressionEvaluatesToTrue(c, c.condition.filter))

(***************************************************************************)
(* Case and layer records                                                  *)
(***************************************************************************)
Case(case, layer, level, no_of_samples, index, path, is_leaf, condition, parameters, command_sets) ==
    [case |-> case, layer |-> layer, level |-> level,
     no_of_samples |-> no_of_samples, index |-> index, path |-> path,
     is_leaf |-> is_leaf, condition |-> condition, parameters |-> parameters,
     command_sets |-> command_sets]

\* base_case = Case(path=case_dir): the synthetic root, the path relative to case_dir
RootCase == Case(<<>>, <<>>, 0, 0, 0, <<>>, FALSE, NoCondition, <<>>, {})

LayerName(level) == <<"layer", level>>

\* The case name the sampler generated for a sample index: "<layer>_<index>"
CaseName(layer_name, index) == <<layer_name, index>>

(***************************************************************************)
(* The configurations the model is run on.  A layer of a farn dict is      *)
(*   [name, samples_present, case_name_present, case_name, samples,        *)
(*    variables, condition, commands]:                                     *)
(* samples is the _samples element without _case_name, a sequence (the     *)
(* dict order) of [name, values]; variables are the keys of the layer that *)
(* do not start with an underscore, in dict order.                         *)
(***************************************************************************)
Fresh == <<"f0", "f1", "f2", "f3">>

Schemes == {"plain", "collide", "zero", "no_samples", "no_case_name"}

SampledValue(scheme, level, k, index) ==
    IF scheme = "zero" THEN index ELSE 100 * (level + 1) + 10 * k + index

StaticValue(level, k) == 100 * (level + 1) + 50 + k

SampledNames(scheme, level) ==
    IF scheme = "collide"
    THEN IF level % 2 = 0 THEN <<Fresh[level + 1], "a">>
                          ELSE <<Fresh[level + 1], "a", "t">>
    ELSE <<Fresh[level + 1]>>

StaticNames(scheme, level) ==
    IF scheme = "collide"
    THEN IF level % 2 = 0 THEN <<Fresh[level + 1], "s", "t">> ELSE <<"s", "a">>
    ELSE <<>>

\* The conditions of the configurations: none; 'index == 1' excluded; a filter on
\* the parameter sampled in layer 1 (not defined in layer 0), included or with no
\* _action given.
DeepFilter == [name |-> Fresh[2], op |-> "==", val |-> SampledValue("plain", 1, 1, 0)]

IndexCondition == Condition([name |-> "index", op |-> "==", val |-> 1], "exclude")

ConditionsOf(scheme) ==
    CASE scheme = "plain" ->
            {NoCondition, IndexCondition, Condition(DeepFilter, "include"),
             Condition(DeepFilter, "")}
      [] scheme = "collide" -> {NoCondition, IndexCondition, Condition(DeepFilter, "include")}
      [] scheme = "zero" -> {NoCondition, IndexCondition, Condition(DeepFilter, "")}
      [] OTHER -> {NoCondition, IndexCondition}

Layer(scheme, level, n, condition, is_last) ==
    LET names == SampledNames(scheme, level)
        statics == StaticNames(scheme, level)
        with_samples == ~(is_last /\ scheme = "no_samples")
        with_case_name == with_samples /\ ~(is_last /\ scheme = "no_case_name")
    IN  [name |-> LayerName(level),
         samples_present |-> with_samples,
         case_name_present |-> with_case_name,
         case_name |-> IF with_case_name
                       THEN [i \in 1..n |-> CaseName(LayerName(level), i - 1)]
                       ELSE <<>>,
         samples |-> IF with_case_name
                     THEN [k \in 1..Len(names) |->
                            [name |-> names[k],
                             values |-> [i \in 1..n |->
                                          SampledValue(scheme, level, k, i - 1)]]]
                     ELSE <<>>,
         variables |-> [k \in 1..Len(statics) |->
                         Parameter(statics[k], StaticValue(level, k))],
         condition |-> condition,
         commands |-> {}]

Configurations ==
    UNION {
        {[l \in 1..L |-> Layer(scheme, l - 1, n[l], cond[l], l = L)] :
            n \in [1..L -> 1..MaxSamples],
            cond \in [1..L -> ConditionsOf(scheme)]}
        : L \in 1..MaxLayers, scheme \in Schemes}

(***************************************************************************)
(* create_cases.create_next_level_cases                                    *)
(***************************************************************************)
\* {parameter.name for parameter in base_case.parameters if parameter.name}
parameter_names_used_in_preceeding_layers(base_case) ==
    {base_case.parameters[i].name : i \in 1..Len(base_case.parameters)} \ {""}

\* Mutant of parameter_names_in_current_layer: names of preceding layers are not skipped.
parameter_names_not_skipped(current_layer, base_case) ==
    [k \in 1..Len(current_layer.samples) |-> current_layer.samples[k].name]

\* sampled names of the layer that no preceding layer defined, in dict order
parameter_names_in_current_layer(current_layer, base_case) ==
    LET names == [k \in 1..Len(current_layer.samples) |-> current_layer.samples[k].name]
    IN  SelectSeq(names,
                  LAMBDA name : name \notin parameter_names_used_in_preceeding_layers(base_case))

\* the user variables of the layer that neither a preceding layer nor the samples
\* of the layer defined
user_variables_in_current_layer(current_layer, base_case) ==
    SelectSeq(current_layer.variables,
              LAMBDA v :
                 /\ v.name \notin parameter_names_used_in_preceeding_layers(base_case)
                 /\ v.name \notin Range(parameter_names_in_current_layer(current_layer, base_case)))

\* samples_in_current_layer[parameter_name][index]
SampleAt(current_layer, parameter_name, index) ==
    LET k == CHOOSE j \in 1..Len(current_layer.samples) :
                 current_layer.samples[j].name = parameter_name
    IN  current_layer.samples[k].values[index + 1]

\* Mutant of case_parameters: the user variables are put before the sampled parameters.
case_parameters_variables_first(current_layer, base_case, index) ==
    LET own == parameter_names_in_current_layer(current_layer, base_case)
    IN  SelectSeq(base_case.parameters, LAMBDA p : p.name # "")
          \o user_variables_in_current_layer(current_layer, base_case)
          \o [k \in 1..Len(own) |-> Parameter(own[k], SampleAt(current_layer, own[k], index))]

\* case_parameters of one iteration: inherited, then sampled, then user variables
case_parameters(current_layer, base_case, index) ==
    LET own == parameter_names_in_current_layer(current_layer, base_case)
    IN  SelectSeq(base_case.parameters, LAMBDA p : p.name # "")
          \o [k \in 1..Len(own) |-> Parameter(own[k], SampleAt(current_layer, own[k], index))]
          \o user_variables_in_current_layer(current_layer, base_case)

\* Mutant of path_of: the case name is joined to the root directory.
path_below_root(base_case, case_name) == <<case_name>>

\* path=base_case.path / case_name
path_of(base_case, case_name) == Append(base_case.path, case_name)

\* The case of one iteration of the loop over the case names.
NewCase(lys, level, base_case, index) ==
    LET current_layer == lys[level + 1]
    IN  Case(current_layer.case_name[index + 1],
             current_layer.name,
             level,
             Len(current_layer.case_name),
             index,
             path_of(base_case, current_layer.case_name[index + 1]),
             level = Len(lys) - 1,
             current_layer.condition,
             case_parameters(current_layer, base_case, index),
             current_layer.commands)

\* Mutant of Keep: the validity is not looked at.
KeepEveryCase(vo, c) == TRUE

\* Mutant of Keep: valid_only is not looked at.
KeepValidCasesOnly(vo, c) == is_valid(c)

\* `if not valid_only or case.is_valid`
Keep(vo, c) == ~vo \/ is_valid(c)

Frame(level, base_case, index) == [level |-> level, base_case |-> base_case, index |-> index]

Top == stack[Len(stack)]

Pop == SubSeq(stack, 1, Len(stack) - 1)

\* Mutant of Recurse: the next level is entered only when the loop has ended.
RecurseAfterLoop(rest, here, case) ==
    Append(Append(rest, Frame(here.level + 1, case, 0)), here)

\* `create_next_level_cases(level=level + 1, base_case=case)` inside the loop: the
\* call for the next level runs before the loop goes on.
Recurse(rest, here, case) ==
    Append(Append(rest, here), Frame(here.level + 1, case, 0))

UnchangedFilter == UNCHANGED <<filter_args, filtered_cases>>

UnchangedProbe == UNCHANGED <<probe, result, available_vars, validity_log>>

UnchangedSampling ==
    UNCHANGED <<sampling, call, samples, raised, logged, engine_values, case_names_at>>

UnchangedMaterial == UNCHANGED <<directories, files, finished>>

UnchangedExecute == UNCHANGED <<command_args, cases_registered, executions, dispatched>>

UnchangedBatch == UNCHANGED <<batch_processor, jobs, unfinished_tasks, workers, job_log>>

UnchangedDispatch == UnchangedExecute /\ UnchangedBatch

UnchangedObjects == UNCHANGED <<objects, references, edit>>

\* Mutant of after_abort: the failed checks end the creation of cases as a whole.
after_abort_of_creation(callers) == <<>>

\* `return` after the warning: the calls that are active go on, each in its loop.
after_abort(callers) == callers

\* The validity checks for the current layer fail: the call returns.
AbortLevel ==
    /\ pc = "create" /\ stack # <<>>
    /\ LET current_layer == layers[Top.level + 1]
       IN  ~current_layer.samples_present \/ ~current_layer.case_name_present
    /\ stack' = after_abort(Pop)
    /\ pc' = IF after_abort(Pop) = <<>> THEN "done" ELSE "create"
    /\ UNCHANGED <<layers, valid_only, cases, number_of_invalid_cases>>
    /\ UnchangedFilter /\ UnchangedProbe /\ UnchangedSampling /\ UnchangedMaterial /\ UnchangedDispatch /\ UnchangedObjects

\* One iteration of the loop: the case is built and either appended (and the next
\* level entered below it) or counted as invalid.
CreateCase ==
    /\ pc = "create" /\ stack # <<>>
    /\ LET current_layer == layers[Top.level + 1]
       IN  /\ current_layer.samples_present /\ current_layer.case_name_present
           /\ Top.index < Len(current_layer.case_name)
    /\ LET case == NewCase(layers, Top.level, Top.base_case, Top.index)
           here == Frame(Top.level, Top.base_case, Top.index + 1)
       IN  IF Keep(valid_only, case)
           THEN /\ cases' = Append(cases, case)
                /\ stack' = IF ~case.is_leaf
                            THEN Recurse(Pop, here, case)
                            ELSE Append(Pop, here)
                /\ UNCHANGED number_of_invalid_cases
           ELSE /\ number_of_invalid_cases' = number_of_invalid_cases + 1
                /\ stack' = Append(Pop, here)
                /\ UNCHANGED cases
    /\ UNCHANGED <<layers, valid_only, pc>>
    /\ UnchangedFilter /\ UnchangedProbe /\ UnchangedSampling /\ UnchangedMaterial /\ UnchangedDispatch /\ UnchangedObjects

\* The loop is exhausted: the call returns; the outermost return ends create_cases.
ReturnLevel ==
    /\ pc = "create" /\ stack # <<>>
    /\ LET current_layer == layers[Top.level + 1]
       IN  /\ current_layer.samples_present /\ current_layer.case_name_present
           /\ Top.index = Len(current_layer.case_name)
    /\ stack' = Pop
    /\ pc' = IF Pop = <<>> THEN "done" ELSE "create"
    /\ UNCHANGED <<layers, valid_only, cases, number_of_invalid_cases>>
    /\ UnchangedFilter /\ UnchangedProbe /\ UnchangedSampling /\ UnchangedMaterial /\ UnchangedDispatch /\ UnchangedObjects

(***************************************************************************)
(* Cases.filter                                                            *)
(***************************************************************************)
\* levels is one integer or a sequence of integers
LevelsInt(n) == [is_int |-> TRUE, int |-> n, seq |-> <<>>]

LevelsSeq(s) == [is_int |-> FALSE, int |-> 0, seq |-> s]

\* _levels = [levels] if isinstance(levels, int) else list(levels)
NormalisedLevels(levels) == IF levels.is_int THEN <<levels.int>> ELSE levels.seq

\* Mutant of filter: a leaf case does not match -1.
filter_by_level_only(self, levels, vo) ==
    LET _levels == Range(NormalisedLevels(levels))
        by_level == SelectSeq(self, LAMBDA c : c.level \in _levels)
    IN  IF vo THEN SelectSeq(by_level, LAMBDA c : is_valid(c)) ELSE by_level

filter(self, levels, vo) ==
    LET _levels == Range(NormalisedLevels(levels))
        by_level == SelectSeq(self, LAMBDA c : c.level \in _levels \/ (c.is_leaf /\ -1 \in _levels))
    IN  IF vo THEN SelectSeq(by_level, LAMBDA c : is_valid(c)) ELSE by_level

\* The default arguments of filter
DefaultLevels == LevelsInt(-1)

DefaultValidOnly == TRUE

FilterLevels == {DefaultLevels, LevelsInt(0), LevelsSeq(<<0, 0>>), LevelsSeq(<<1, -1>>)}

\* Mutant of self_after_filter: the selection is made in place.
self_filtered_in_place(self, levels, vo) == filter(self, levels, vo)

\* The receiver when filter returns: both selections are list comprehensions that
\* build new lists, Cases(filtered_cases) is a new collection, and is_valid only
\* reads the fields of a case.
self_after_filter(self, levels, vo) == self

Filter(levels, vo) ==
    /\ pc = "done"
    /\ filter_args' = [levels |-> levels, valid_only |-> vo]
    /\ filtered_cases' = filter(cases, levels, vo)
    /\ cases' = self_after_filter(cases, levels, vo)
    /\ pc' = "filtered"
    /\ UNCHANGED <<layers, valid_only, number_of_invalid_cases, stack>>
    /\ UnchangedProbe /\ UnchangedSampling /\ UnchangedMaterial /\ UnchangedDispatch /\ UnchangedObjects

(***************************************************************************)
(* DiscreteSampling: the object                                            *)
(*                                                                         *)
(* A parameter mapping is a record: keys is the set of keys the mapping    *)
(* holds, the other fields are the values under those keys (the value of   *)
(* an absent key is never read).  _includeBoundingBox is "True", "False"   *)
(* or "yes" (a value that is not a bool).  Sampled values are integers.    *)
(***************************************************************************)
NoSamplingParameters ==
    [keys |-> {}, names |-> <<>>, values |-> <<>>, ranges |-> <<>>,
     numberOfSamples |-> 0, includeBoundingBox |-> "False", mu |-> <<>>, sigma |-> 0]

\* DiscreteSampling.__init__
DiscreteSampling ==
    [layer_name |-> "", sampling_parameters |-> NoSamplingParameters, fields |-> <<>>,
     ranges |-> <<>>, bounding_box |-> <<>>, case_names |-> <<>>, sampling_type |-> "",
     number_of_fields |-> 0, number_of_samples |-> 0, number_of_bb_samples |-> 0,
     leading_zeros |-> 0, include_bounding_box |-> FALSE]

NoCall == [op |-> "", arg |-> ""]

NoSamples == [returned |-> FALSE, case_name |-> <<>>, names |-> <<>>, values |-> <<>>]

\* Nothing was written to the file system, no call has returned.
\* the argument levels of create_case_list_files: None by default
NotGiven == [given |-> FALSE, levels |-> LevelsInt(0)]

Given(levels) == [given |-> TRUE, levels |-> levels]

NoReturn == [op |-> "", levels |-> NotGiven, value |-> <<>>, raised |-> "none", log |-> <<>>]

MaterialIdle ==
    /\ directories = {}
    /\ files = {}
    /\ finished = NoReturn

\* No command set was executed, no batch processor exists.
NoCommandArgs == [command_set |-> "", batch |-> FALSE, test |-> FALSE]

NoDispatch == [returned |-> FALSE, value |-> 0, raised |-> "none", log |-> <<>>]

NoBatchProcessor == [case_list_file |-> <<>>, command |-> "", timeout |-> 0, max_number_of_cpus |-> 0, number_of_cpus |-> 0, lines |-> <<>>, queued |-> 0, pc |-> "", raised |-> "none", error |-> ""]

NoEdit == [op |-> "none", case |-> 0, position |-> 0, parameters |-> <<>>]

ObjectsIdle ==
    /\ objects = <<>>
    /\ references = <<>>
    /\ edit = NoEdit

DispatchIdle ==
    /\ command_args = NoCommandArgs
    /\ cases_registered = <<>>
    /\ executions = <<>>
    /\ dispatched = NoDispatch
    /\ batch_processor = NoBatchProcessor
    /\ jobs = <<>>
    /\ unfinished_tasks = 0
    /\ workers = <<>>
    /\ job_log = <<>>

\* No sampler is in use.
SamplingIdle ==
    /\ sampling = DiscreteSampling
    /\ call = NoCall
    /\ samples = NoSamples
    /\ raised = "none"
    /\ logged = {}
    /\ engine_values = <<>>
    /\ case_names_at = <<>>

(***************************************************************************)
(* Specification of create_cases followed by one call of filter            *)
(***************************************************************************)
NoFilterArgs == [levels |-> DefaultLevels, valid_only |-> DefaultValidOnly]

Init ==
    /\ ObjectsIdle
    /\ layers \in Configurations
    /\ valid_only \in BOOLEAN
    /\ cases = <<>>
    /\ number_of_invalid_cases = 0
    /\ stack = <<Frame(0, RootCase, 0)>>
    /\ pc = "create"
    /\ filter_args = NoFilterArgs
    /\ filtered_cases = <<>>
    /\ probe = RootCase
    /\ result = TRUE
    /\ available_vars = {}
    /\ validity_log = "none"
    /\ SamplingIdle
    /\ MaterialIdle
    /\ DispatchIdle

Next ==
    \/ AbortLevel
    \/ CreateCase
    \/ ReturnLevel
    \/ \E levels \in FilterLevels, vo \in BOOLEAN : Filter(levels, vo)

Spec == Init /\ [][Next]_vars

(***************************************************************************)
(* Specification of one read of Case.is_valid on a case built by hand      *)
(* (Case(...) of core/case.py with any parameters and condition).          *)
(***************************************************************************)
ProbeNames == {"", "a", "_u"}

ProbeValues == {0, 1}

ProbeParameters == {Parameter(name, value) : name \in ProbeNames, value \in ProbeValues}

ProbeFilters ==
    {NoFilter,
     [name |-> "index", op |-> "==", val |-> 1],
     [name |-> "a", op |-> "==", val |-> 1],
     [name |-> "is_leaf", op |-> "truth", val |-> 0],
     [name |-> "_u", op |-> "==", val |-> 1],
     [name |-> "zz", op |-> "!=", val |-> 1]}

ProbeActions == {"", "exclude", "include", "other"}

ProbeConditions ==
    {NoCondition} \cup {Condition(f, a) : f \in ProbeFilters, a \in ProbeActions}

ProbeCases ==
    {Case(CaseName(LayerName(BoolToInt(leaf)), index), LayerName(BoolToInt(leaf)),
          BoolToInt(leaf), 2, index,
          <<CaseName(LayerName(BoolToInt(leaf)), index)>>, leaf, condition, parameters, {}) :
        index \in {0, 1}, leaf \in BOOLEAN, condition \in ProbeConditions,
        parameters \in SeqsUpTo(ProbeParameters, MaxParams)}

InitCase ==
    /\ ObjectsIdle
    /\ probe \in ProbeCases
    /\ pc = "ready"
    /\ result = TRUE
    /\ available_vars = {}
    /\ validity_log = "none"
    /\ layers = <<>>
    /\ valid_only = FALSE
    /\ cases = <<>>
    /\ number_of_invalid_cases = 0
    /\ stack = <<>>
    /\ filter_args = NoFilterArgs
    /\ filtered_cases = <<>>
    /\ SamplingIdle
    /\ MaterialIdle
    /\ DispatchIdle

\* probe.is_valid is read
ReadIsValid ==
    /\ pc = "ready"
    /\ result' = is_valid(probe)
    /\ available_vars' = IF Evaluated(probe) THEN AvailableVars(probe) ELSE {}
    /\ validity_log' = ValidityLog(probe)
    /\ pc' = "returned"
    /\ UNCHANGED <<probe, layers, valid_only, cases, number_of_invalid_cases, stack>>
    /\ UnchangedFilter /\ UnchangedSampling /\ UnchangedMaterial /\ UnchangedDispatch /\ UnchangedObjects

NextCase == ReadIsValid

SpecCase == InitCase /\ [][NextCase]_vars

(***************************************************************************)
(* Notions the properties are stated with                                  *)
(***************************************************************************)
Front(s) == SubSeq(s, 1, Len(s) - 1)

IsPrefix(s, t) == Len(s) <= Len(t) /\ SubSeq(t, 1, Len(s)) = s

NumberOfLayers == Len(layers)

\* the number of case names of the layer at a level
SamplesAt(level) == Len(layers[level + 1].case_name)

\* the candidate cases one level below a case (below the root: level 0)
ChildrenOf(parent) ==
    IF parent = RootCase
    THEN {NewCase(layers, 0, RootCase, i) : i \in 0..(SamplesAt(0) - 1)}
    ELSE IF parent.level + 1 >= NumberOfLayers
         THEN {}
         ELSE {NewCase(layers, parent.level + 1, parent, i) :
                  i \in 0..(SamplesAt(parent.level + 1) - 1)}

\* the case of the collection a case was built below (the root for level 0)
ParentOf(c) ==
    IF Len(c.path) <= 1 THEN RootCase
    ELSE cases[CHOOSE i \in 1..Len(cases) : cases[i].path = Front(c.path)]

HasParent(c) ==
    Len(c.path) <= 1 \/ \E i \in 1..Len(cases) : cases[i].path = Front(c.path)

AllLayersSampled == \A l \in 1..NumberOfLayers : layers[l].case_name_present

NoLayerCondition == \A l \in 1..NumberOfLayers : ~layers[l].condition.present

\* n_0 * ... * n_(l-1)
RECURSIVE ProductOfSamples(_)
ProductOfSamples(l) == IF l = 0 THEN 1 ELSE ProductOfSamples(l - 1) * SamplesAt(l - 1)

\* sum over l < L of n_0 * ... * n_l
RECURSIVE SumOfProducts(_)
SumOfProducts(L) == IF L = 0 THEN 0 ELSE SumOfProducts(L - 1) + ProductOfSamples(L)

LeafPositions == {i \in 1..Len(cases) : cases[i].is_leaf}

\* the cases of the deepest level, in collection order
DeepestLevelCases == SelectSeq(cases, LAMBDA c : c.level = NumberOfLayers - 1)

(***************************************************************************)
(* C1: create_cases with valid_only=True returns only valid cases, each    *)
(* below a parent that is in the result too (no descendant of a dropped    *)
(* case appears), and every valid candidate below the root or below a      *)
(* returned case is in the result (the subtrees of valid siblings are      *)
(* complete).                                                              *)
(***************************************************************************)
C1_ValidOnlyPrunesSubtrees ==
    (pc = "done" /\ valid_only) =>
        /\ \A i \in 1..Len(cases) : is_valid(cases[i])
        /\ \A i \in 1..Len(cases) :
              cases[i].level > 0 =>
                  \E j \in 1..(i - 1) : cases[j].path = Front(cases[i].path)
        /\ \A parent \in {RootCase} \cup Range(cases) :
              \A child \in ChildrenOf(parent) :
                  is_valid(child) => child \in Range(cases)

\* a case of level 0 was dropped, and a sibling of it was kept with a child below it
C1_Witness ==
    /\ pc = "done" /\ valid_only
    /\ \E child \in ChildrenOf(RootCase) : ~is_valid(child) /\ child \notin Range(cases)
    /\ \E i \in 1..Len(cases) : cases[i].level = 1
    /\ number_of_invalid_cases > 0

(***************************************************************************)
(* C2: the collection is in tree pre-order at every moment, and a step     *)
(* only appends to it.  Pre-order is stated on neighbours: the first case  *)
(* is of level 0, and each further case is a child of the case before it,  *)
(* or a sibling with a greater sample index of that case or of one of its  *)
(* ancestors.  (With the parent of every case in the collection, this is   *)
(* the lexicographic order of the paths, a path before its extensions.)    *)
(***************************************************************************)
IndexInName(case_name) == case_name[2]

PreOrderNeighbours(prev, next) ==
    /\ IsPrefix(Front(next.path), prev.path)
    /\ next.case = next.path[Len(next.path)]
    /\ Len(next.path) <= Len(prev.path) =>
          next.index > IndexInName(prev.path[Len(next.path)])
    /\ next.index = IndexInName(next.case)

PreOrder(cs) ==
    /\ cs # <<>> => Len(cs[1].path) = 1 /\ cs[1].index = IndexInName(cs[1].case)
    /\ \A i \in 1..(Len(cs) - 1) : PreOrderNeighbours(cs[i], cs[i + 1])

\* C2: the collection is in tree pre-order in every state, and no step removes or
\* reorders a case that was appended.
C2_PreOrderAppendOnly ==
    /\ [](PreOrder(cases))
    /\ [][IsPrefix(cases, cases')]_vars

\* a case is followed by its child, that by a sibling of the child, that by a sibling
\* of the first case
C2_Witness ==
    /\ pc = "done"
    /\ \E i \in 1..(Len(cases) - 3) :
          /\ cases[i + 1].path = Append(cases[i].path, cases[i + 1].case)
          /\ Front(cases[i + 2].path) = cases[i].path
          /\ cases[i + 2].index > cases[i + 1].index
          /\ Front(cases[i + 3].path) = Front(cases[i].path)
          /\ cases[i + 3].index > cases[i].index

\* no sampled value of the configuration is falsy
NoFalsySample ==
    \A l \in 1..NumberOfLayers : \A k \in 1..Len(layers[l].samples) :
        \A i \in 1..Len(layers[l].samples[k].values) :
            ~Falsy(layers[l].samples[k].values[i])

\* the filters of the configuration name nothing but the sample index
NoEvaluationError ==
    \A l \in 1..NumberOfLayers :
        layers[l].condition.present => layers[l].condition.filter.name = "index"

(***************************************************************************)
(* C3 as stated: with valid_only False or no condition in any layer, the   *)
(* result has sum of products cases, product of all sizes leaves, is_leaf  *)
(* exactly at the last level, and filter(-1) returns exactly the leaves.   *)
(* (Read on configurations without a falsy sample value and whose filters  *)
(* name only the sample index, so that a violation rests neither on the    *)
(* value 0 counting as a missing value nor on a filter that raises.)       *)
(***************************************************************************)
C3_Counts ==
    /\ Len(cases) = SumOfProducts(NumberOfLayers)
    /\ Cardinality(LeafPositions) = ProductOfSamples(NumberOfLayers)
    /\ \A i \in 1..Len(cases) : cases[i].is_leaf <=> cases[i].level = NumberOfLayers - 1

C3_Precondition == AllLayersSampled /\ (~valid_only \/ NoLayerCondition)

\* C3 (as stated): the counts hold and filter(-1) returns exactly the leaf cases.
C3_Original ==
    (pc = "filtered" /\ C3_Precondition /\ NoFalsySample /\ NoEvaluationError
        /\ filter_args = NoFilterArgs) =>
        /\ C3_Counts
        /\ filtered_cases = DeepestLevelCases

(***************************************************************************)
(* C3 amended: the counts as stated; filter(-1, valid_only=False) returns  *)
(* exactly the leaf cases, and filter(-1) (valid_only=True by default)     *)
(* returns the valid ones among them, which are all of them when no layer  *)
(* carries a condition.                                                    *)
(***************************************************************************)
\* C3 (amended): the counts hold, filter(-1, valid_only=False) returns the leaf
\* cases and filter(-1) the valid ones among them.
C3_CountsAndLeaves ==
    (pc = "filtered" /\ C3_Precondition /\ filter_args.levels = DefaultLevels) =>
        /\ C3_Counts
        /\ ~filter_args.valid_only => filtered_cases = DeepestLevelCases
        /\ filter_args.valid_only =>
              filtered_cases = SelectSeq(DeepestLevelCases, LAMBDA c : is_valid(c))
        /\ (filter_args.valid_only /\ NoLayerCondition) =>
              filtered_cases = DeepestLevelCases

\* two layers of two samples each: 6 cases, 4 leaves, all returned by filter(-1)
C3_Witness ==
    /\ pc = "filtered" /\ C3_Precondition /\ filter_args = NoFilterArgs
    /\ NumberOfLayers = 2 /\ SamplesAt(0) = 2 /\ SamplesAt(1) = 2
    /\ Len(cases) = 6 /\ Len(filtered_cases) = 4

(***************************************************************************)
(* C4: the parameters of a case are the parameters of its parent, then the *)
(* sampled parameters of its own layer whose name the parent does not      *)
(* carry (in the order of the samples, with the value of the case's sample *)
(* index), then the static variables of the layer whose name neither the   *)
(* parent carries nor the layer samples; no name occurs twice.             *)
(***************************************************************************)
NamesOf(parameters) == {parameters[i].name : i \in 1..Len(parameters)}

SampledNamesOf(layer) == {layer.samples[k].name : k \in 1..Len(layer.samples)}

ExpectedOwnSampled(layer, inherited, index) ==
    LET kept == SelectSeq(layer.samples, LAMBDA sample : sample.name \notin NamesOf(inherited))
    IN  [k \in 1..Len(kept) |-> Parameter(kept[k].name, kept[k].values[index + 1])]

ExpectedOwnStatic(layer, inherited) ==
    SelectSeq(layer.variables,
              LAMBDA v : v.name \notin NamesOf(inherited) /\ v.name \notin SampledNamesOf(layer))

NoNameTwice(parameters) ==
    \A i, j \in 1..Len(parameters) : parameters[i].name = parameters[j].name => i = j

C4_ParametersOf(c) ==
    LET inherited == ParentOf(c).parameters
        layer == layers[c.level + 1]
    IN  /\ c.parameters = inherited \o ExpectedOwnSampled(layer, inherited, c.index)
                                    \o ExpectedOwnStatic(layer, inherited)
        /\ NoNameTwice(c.parameters)

\* C4: every returned case has its parent in the collection and carries the parent's
\* parameters, then its retained samples, then its retained static variables,
\* without a repeated name.
C4_ParameterSequence ==
    pc = "done" =>
        \A i \in 1..Len(cases) : HasParent(cases[i]) /\ C4_ParametersOf(cases[i])

\* a case below a parent with parameters, whose layer has a sampled name the parent
\* carries, a sampled name it keeps, and static variables that are dropped
C4_Witness ==
    /\ pc = "done"
    /\ \E i \in 1..Len(cases) :
          LET c == cases[i]
              layer == layers[c.level + 1]
              inherited == ParentOf(c).parameters
          IN  /\ c.level = 1
              /\ inherited # <<>>
              /\ SampledNamesOf(layer) \cap NamesOf(inherited) # {}
              /\ ExpectedOwnSampled(layer, inherited, c.index) # <<>>
              /\ Len(ExpectedOwnStatic(layer, inherited)) < Len(layer.variables)
              /\ Len(c.parameters) > Len(inherited)

(***************************************************************************)
(* C5: the value a case carries for a name is the first definition of the  *)
(* name along its path: that of the first layer (from level 0 down to the  *)
(* case's own) that samples the name or has it as a static variable, the   *)
(* sample winning over the static variable inside one layer.               *)
(***************************************************************************)
StaticNamesOf(layer) == {layer.variables[k].name : k \in 1..Len(layer.variables)}

DefinedIn(layer, name) == name \in SampledNamesOf(layer) \cup StaticNamesOf(layer)

\* the value layer `l` (1-based) gives the name on the path of the case
DefinitionIn(l, name, c) ==
    LET layer == layers[l]
    IN  IF name \in SampledNamesOf(layer)
        THEN LET k == CHOOSE j \in 1..Len(layer.samples) : layer.samples[j].name = name
             IN  layer.samples[k].values[IndexInName(c.path[l]) + 1]
        ELSE LET k == CHOOSE j \in 1..Len(layer.variables) : layer.variables[j].name = name
             IN  layer.variables[k].value

FirstDefinition(name, c) ==
    LET defining == {l \in 1..(c.level + 1) : DefinedIn(layers[l], name)}
        first == CHOOSE l \in defining : \A m \in defining : l <= m
    IN  DefinitionIn(first, name, c)

\* C5: every parameter a returned case carries is defined by a layer on its path and
\* has the value of the first definition; every name defined on the path is carried.
C5_FirstDefinitionWins ==
    pc = "done" =>
        \A i \in 1..Len(cases) :
            LET c == cases[i]
            IN  /\ \A k \in 1..Len(c.parameters) :
                      /\ \E l \in 1..(c.level + 1) : DefinedIn(layers[l], c.parameters[k].name)
                      /\ c.parameters[k].value = FirstDefinition(c.parameters[k].name, c)
                /\ \A l \in 1..(c.level + 1) :
                      SampledNamesOf(layers[l]) \cup StaticNamesOf(layers[l])
                          \subseteq NamesOf(c.parameters)

\* a case of level 1 whose layer samples a name sampled above, samples a name that is
\* a static variable above, and has static variables defined above
C5_Witness ==
    /\ pc = "done"
    /\ \E i \in 1..Len(cases) :
          LET c == cases[i]
          IN  /\ c.level = 1
              /\ SampledNamesOf(layers[2]) \cap SampledNamesOf(layers[1]) # {}
              /\ SampledNamesOf(layers[2]) \cap StaticNamesOf(layers[1]) # {}
              /\ StaticNamesOf(layers[2]) \cap SampledNamesOf(layers[1]) # {}
              /\ StaticNamesOf(layers[2]) \cap StaticNamesOf(layers[1]) # {}
              /\ StaticNamesOf(layers[1]) \cap SampledNamesOf(layers[1]) # {}

(***************************************************************************)
(* C6: a case whose filter expression raises when evaluated is valid, for  *)
(* action 'exclude' and for action 'include': with valid_only=True it is   *)
(* in the result, whichever action its condition has.                      *)
(***************************************************************************)
C6_EvaluationErrorKeepsCase ==
    (pc = "done" /\ valid_only) =>
        \A parent \in {RootCase} \cup Range(cases) :
            \A child \in ChildrenOf(parent) :
                (Evaluated(child) /\ EvalRaises(child, child.condition.filter)) =>
                    is_valid(child) /\ child \in Range(cases)

(***************************************************************************)
(* C7: for a case with a filter expression and a non-empty parameter list  *)
(* in which every parameter has a name and a value (none is missing in the *)
(* sense of the formal checks of is_valid), and whose expression evaluates *)
(* without error to b: is_valid is not b for action 'exclude', b for       *)
(* action 'include', and not b when no action is given.                    *)
(***************************************************************************)
C7_Precondition(c) ==
    /\ c.condition.present
    /\ c.condition.filter # NoFilter
    /\ c.parameters # <<>>
    /\ \A i \in 1..Len(c.parameters) :
          c.parameters[i].name # "" /\ ~Falsy(c.parameters[i].value)
    /\ ~EvalRaises(c, c.condition.filter)

HasNamelessParameter(c) == \E i \in 1..Len(c.parameters) : c.parameters[i].name = ""

C8_FailOpenFailClosed ==
    pc = "returned" =>
        /\ (~probe.condition.present \/ probe.condition.filter = NoFilter) => result
        /\ (/\ probe.condition.present
            /\ probe.condition.filter # NoFilter
            /\ (probe.parameters = <<>> \/ HasNamelessParameter(probe))) => ~result

\* invalid for an empty parameter list although the expression (index == 1) is false
\* under action 'exclude'
C8_Witness ==
    /\ pc = "returned"
    /\ probe.condition.present /\ probe.condition.filter.name = "index"
    /\ probe.condition.action = "exclude"
    /\ probe.index = 0
    /\ probe.parameters = <<>>
    /\ ~result
    /\ validity_log = "no_parameters"

(***************************************************************************)
(* C9: when the filter expression is evaluated, each of the names case,    *)
(* layer, level, index, is_leaf, no_of_samples, condition, command_sets is *)
(* bound in the scope, and a filter that names only one of them evaluates  *)
(* without error and decides by the field of the case.                     *)
(***************************************************************************)
MetadataNames ==
    {"case", "layer", "level", "index", "is_leaf", "no_of_samples", "condition",
     "command_sets"}

\* the truth of a filter on a metadata name, read from the field of the case
TruthByField(c, e) ==
    LET field == CASE e.name = "index" -> c.index
                   [] e.name = "level" -> c.level
                   [] e.name = "no_of_samples" -> c.no_of_samples
                   [] e.name = "is_leaf" -> BoolToInt(c.is_leaf)
                   [] OTHER -> 0
    IN  CASE e.op = "==" -> field = e.val
          [] e.op = "!=" -> field # e.val
          [] OTHER -> field # 0

\* C9: every metadata name is bound when the filter is evaluated, and a filter on a
\* metadata name does not raise and decides by the field of the case.
C9_MetadataInScope ==
    (pc = "returned" /\ Evaluated(probe)) =>
        /\ MetadataNames \subseteq available_vars
        /\ (/\ probe.condition.filter.name \in MetadataNames
            /\ probe.condition.filter.name \notin NamesOf(probe.parameters)) =>
              /\ validity_log # "evaluation_failed"
              /\ result = Decide(ActionOf(probe.condition),
                                 TruthByField(probe, probe.condition.filter))

(***************************************************************************)
(* C10: filter(levels, valid_only) returns the cases of the receiver at    *)
(* exactly the positions of the cases c with c.level in levels, or with    *)
(* c.is_leaf and -1 in levels, that are valid when valid_only is True:     *)
(* each such position once, in the receiver's order.  levels is an integer *)
(* or a sequence; the defaults select the valid leaf cases.                *)
(***************************************************************************)
RequestedLevels(levels) ==
    IF levels.is_int THEN {levels.int} ELSE {levels.seq[i] : i \in 1..Len(levels.seq)}

SelectedPositions(levels, vo) ==
    {i \in 1..Len(cases) :
        /\ \/ cases[i].level \in RequestedLevels(levels)
           \/ (-1 \in RequestedLevels(levels) /\ cases[i].is_leaf)
        /\ vo => is_valid(cases[i])}

\* the i-th position of a set of positions, in increasing order
NthPosition(positions, i) ==
    CHOOSE p \in positions : Cardinality({q \in positions : q <= p}) = i

\* C10: filter returns the receiver's cases at exactly the selected positions, in
\* order; the default arguments give the valid leaf cases.
C10_FilterSelects ==
    pc = "filtered" =>
        LET positions == SelectedPositions(filter_args.levels, filter_args.valid_only)
        IN  /\ Len(filtered_cases) = Cardinality(positions)
            /\ \A i \in 1..Len(filtered_cases) :
                  filtered_cases[i] = cases[NthPosition(positions, i)]
            /\ filter_args = NoFilterArgs =>
                  /\ \A i \in 1..Len(filtered_cases) :
                        filtered_cases[i].is_leaf /\ is_valid(filtered_cases[i])
                  /\ \A i \in 1..Len(cases) :
                        (cases[i].is_leaf /\ is_valid(cases[i])) =>
                            cases[i] \in Range(filtered_cases)

\* levels given as the sequence [1, -1], valid_only True: a leaf of level 1 is
\* returned, an invalid leaf is left out, and so is a case of level 0
C10_Witness ==
    /\ pc = "filtered"
    /\ filter_args = [levels |-> LevelsSeq(<<1, -1>>), valid_only |-> TRUE]
    /\ filtered_cases # <<>>
    /\ \E i \in 1..Len(cases) : cases[i].is_leaf /\ ~is_valid(cases[i])
    /\ \E i \in 1..Len(cases) : cases[i].level = 0 /\ ~cases[i].is_leaf
    /\ Len(filtered_cases) < Len(cases) - 1

MaxFields == 3

MaxNumberOfSamples == 2

\* _set_up_known_sampling_types: the required arguments of each registered type
required_args(sampling_type) ==
    CASE sampling_type = "fixed"        -> <<"_names", "_values">>
      [] sampling_type = "linSpace"     -> <<"_names", "_ranges", "_numberOfSamples">>
      [] sampling_type = "uniformLhs"   -> <<"_names", "_ranges", "_numberOfSamples">>
      [] sampling_type = "normalLhs"    -> <<"_names", "_numberOfSamples", "_mu", "_sigma">>
      [] sampling_type = "sobol"        -> <<"_names", "_ranges", "_numberOfSamples", "_onset">>
      [] sampling_type = "arbitrary"    -> <<"_names", "_ranges", "_numberOfSamples",
                                             "_distributionName", "_distributionParameters",
                                             "_includeBoundingBox">>
      [] sampling_type = "hilbertCurve" -> <<"_names", "_ranges", "_numberOfSamples">>

known_sampling_types ==
    {"fixed", "linSpace", "uniformLhs", "normalLhs", "sobol", "arbitrary", "hilbertCurve"}

\* Mutant of set_sampling_type: the name is stored before it is looked up.
set_sampling_type_unchecked(self, sampling_type) ==
    [self EXCEPT !.sampling_type = sampling_type]

\* set_sampling_type: the sampler after the call and the exception raised
set_sampling_type(self, sampling_type) ==
    IF sampling_type \in known_sampling_types
    THEN [self EXCEPT !.sampling_type = sampling_type]
    ELSE self

set_sampling_type_raises(sampling_type) ==
    IF sampling_type \in known_sampling_types THEN "none" ELSE "ValueError"

\* The names set_sampling_type is called with
TypeNames == known_sampling_types \cup {"", "Fixed", "random"}

SetSamplingType(sampling_type) ==
    /\ pc \in {"new", "typed"}
    /\ call' = [op |-> "set_sampling_type", arg |-> sampling_type]
    /\ sampling' = set_sampling_type(sampling, sampling_type)
    /\ raised' = set_sampling_type_raises(sampling_type)
    /\ logged' = IF sampling_type \in known_sampling_types
                 THEN {}
                 ELSE {<<"not implemented yet", sampling_type>>}
    /\ pc' = IF sampling_type \in known_sampling_types THEN "typed" ELSE pc
    /\ UNCHANGED <<samples, engine_values, case_names_at>>
    /\ UNCHANGED <<layers, valid_only, cases, number_of_invalid_cases, stack>>
    /\ UnchangedFilter /\ UnchangedProbe /\ UnchangedMaterial /\ UnchangedDispatch /\ UnchangedObjects

\* _check_length_matches_number_of_names
check_length_matches_number_of_names(sampling_parameters, parameter) ==
    Len(parameter) = Len(sampling_parameters.names)

\* _check_consistency_of_ranges
check_consistency_of_ranges(sampling_parameters, ranges) ==
    /\ \A i \in 1..Len(ranges) : Len(ranges[i]) = 2
    /\ check_length_matches_number_of_names(sampling_parameters, ranges)

\* the required arguments the mapping lacks: one error is logged for each
MissingArguments(sampling_type, sampling_parameters) ==
    {kwarg \in Range(required_args(sampling_type)) : kwarg \notin sampling_parameters.keys}

\* self.sampling_parameters["_names"] is read whether or not the key is there
set_sampling_parameters_raises(sampling_parameters) ==
    IF "_names" \in sampling_parameters.keys THEN "none" ELSE "KeyError"

\* Mutant of fields_read: the field list is cleared before the names are read.
fields_read_anew(self, sampling_parameters) == sampling_parameters.names

\* `for name in self.sampling_parameters["_names"]: self.fields.append(name)`
fields_read(self, sampling_parameters) == self.fields \o sampling_parameters.names

\* set_sampling_parameters: the sampler when the call ends (by return or by raise)
set_sampling_parameters(self, sampling_parameters, layer_name) ==
    LET assigned == [self EXCEPT !.layer_name = layer_name,
                                 !.sampling_parameters = sampling_parameters]
        fields   == fields_read(self, sampling_parameters)
        accepted == /\ "_ranges" \in sampling_parameters.keys
                    /\ check_consistency_of_ranges(sampling_parameters,
                                                   sampling_parameters.ranges)
    IN  IF set_sampling_parameters_raises(sampling_parameters) # "none"
        THEN assigned
        ELSE [assigned EXCEPT !.fields = fields,
                              !.number_of_fields = Len(fields),
                              !.ranges = IF accepted THEN sampling_parameters.ranges
                                                     ELSE self.ranges,
                              !.number_of_samples = 0,
                              !.number_of_bb_samples = 0]

set_sampling_parameters_logs(self, sampling_parameters) ==
    {<<"required argument is missing", kwarg>> :
        kwarg \in MissingArguments(self.sampling_type, sampling_parameters)}
    \cup IF /\ "_names" \in sampling_parameters.keys
            /\ "_ranges" \in sampling_parameters.keys
            /\ ~check_consistency_of_ranges(sampling_parameters, sampling_parameters.ranges)
         THEN {<<"_ranges is inconsistent", "_ranges">>}
         ELSE {}

(***************************************************************************)
(* Parameter mappings the sampler is configured with.  Variable j has the  *)
(* range [10j, 10j+4], the mean 10j+2 and the fixed values 100j+1, ...     *)
(* Lists may be absent, too short or too long; an entry of _ranges is a    *)
(* [min, max] pair with min < max.                                         *)
(***************************************************************************)
FieldNames == <<"x1", "x2", "x3", "x4">>

RangeOf(j) == <<10 * j, 10 * j + 4>>

\* shape "pairs": one range per name; "one_more": one range more than names
RangesOfShape(shape, k) ==
    [j \in 1..(IF shape = "one_more" THEN k + 1 ELSE k) |-> RangeOf(j)]

\* shape "equal": k lists of n values; "unequal": the last list has one value more;
\* "one_less": k - 1 lists of n values
ValuesOfShape(shape, k, n) ==
    [j \in 1..(IF shape = "one_less" THEN k - 1 ELSE k) |->
        [i \in 1..(IF shape = "unequal" /\ j = k THEN n + 1 ELSE n) |-> 100 * j + i]]

SamplingParameters(sampling_type, k, n, bounding_box, ranges_shape, values_shape) ==
    [keys   |-> (Range(required_args(sampling_type)) \ {"_includeBoundingBox", "_ranges"})
                \cup (IF bounding_box = "absent" THEN {} ELSE {"_includeBoundingBox"})
                \cup (IF ranges_shape = "absent" THEN {} ELSE {"_ranges"}),
     names  |-> SubSeq(FieldNames, 1, k),
     values |-> IF sampling_type = "fixed" THEN ValuesOfShape(values_shape, k, n) ELSE <<>>,
     ranges |-> IF ranges_shape = "absent" THEN <<>> ELSE RangesOfShape(ranges_shape, k),
     numberOfSamples    |-> IF sampling_type = "fixed" THEN 0 ELSE n,
     includeBoundingBox |-> IF bounding_box = "absent" THEN "False" ELSE bounding_box,
     mu     |-> IF sampling_type = "normalLhs" THEN [j \in 1..k |-> 10 * j + 2] ELSE <<>>,
     sigma  |-> IF sampling_type = "normalLhs" THEN 3 ELSE 0]

\* the mapping without one of its keys
Lacking(sampling_parameters, kwarg) ==
    [sampling_parameters EXCEPT !.keys = @ \ {kwarg}]

BoundingBoxOptions(sampling_type) ==
    CASE sampling_type \in {"uniformLhs", "sobol", "hilbertCurve"} ->
             {"absent", "True", "False", "yes"}
      [] sampling_type = "arbitrary" -> {"True", "False"}
      [] OTHER -> {"absent", "True"}

RangesShapes(sampling_type) ==
    CASE sampling_type = "fixed"     -> {"absent"}
      [] sampling_type = "normalLhs" -> {"absent", "pairs", "one_more"}
      [] sampling_type = "arbitrary" -> {"pairs"}
      [] OTHER                       -> {"pairs", "one_more"}

ValuesShapes(sampling_type, k) ==
    IF sampling_type # "fixed" THEN {"equal"}
    ELSE IF k = 1 THEN {"equal", "one_less"} ELSE {"equal", "unequal", "one_less"}

\* fixed sampling may be given empty value lists; the other types are asked for
\* at least one sample
NumbersOfSamples(sampling_type, values_shape) ==
    IF sampling_type = "fixed" /\ values_shape = "equal"
    THEN 0..MaxNumberOfSamples ELSE 1..MaxNumberOfSamples

ParameterSets(sampling_type) ==
    UNION {UNION {{SamplingParameters(sampling_type, k, n, bb, rs, vs) :
                      n \in NumbersOfSamples(sampling_type, vs),
                      bb \in BoundingBoxOptions(sampling_type),
                      rs \in RangesShapes(sampling_type)} :
                  vs \in ValuesShapes(sampling_type, k)} :
           k \in 1..MaxFields}
    \cup {Lacking(SamplingParameters(sampling_type, 1, 1, "True", "pairs", "equal"), kwarg) :
            kwarg \in Range(required_args(sampling_type))}

SetSamplingParameters ==
    /\ pc = "typed"
    /\ \E sampling_parameters \in ParameterSets(sampling.sampling_type) :
          /\ sampling' = set_sampling_parameters(sampling, sampling_parameters, "base")
          /\ raised' = set_sampling_parameters_raises(sampling_parameters)
          /\ logged' = set_sampling_parameters_logs(sampling, sampling_parameters)
          /\ pc' = IF set_sampling_parameters_raises(sampling_parameters) = "none"
                   THEN "configured" ELSE "failed"
    /\ call' = [op |-> "set_sampling_parameters", arg |-> ""]
    /\ UNCHANGED <<samples, engine_values, case_names_at>>
    /\ UNCHANGED <<layers, valid_only, cases, number_of_invalid_cases, stack>>
    /\ UnchangedFilter /\ UnchangedProbe /\ UnchangedMaterial /\ UnchangedDispatch /\ UnchangedObjects

(***************************************************************************)
(* DiscreteSampling: generate_samples                                      *)
(***************************************************************************)
RECURSIVE Digits(_)
\* the decimal digits of i >= 0
Digits(i) == IF i < 10 THEN <<i>> ELSE Append(Digits(i \div 10), i % 10)

\* format(i, "0<width>d")
Format(i, width) ==
    LET digits == Digits(i)
    IN  IF Len(digits) >= width THEN digits
        ELSE [p \in 1..(width - Len(digits)) |-> 0] \o digits

\* int(math.log10(n) - 1.0e-06) for n >= 1: the largest m with
\* log10(n) - 1e-6 >= m, that is n >= 10^m * 10^(1e-6) = 10^m * (1 + 1/434294.2..),
\* and 0 for n = 1 (int truncates -1e-6 to 0)
IntLog10(n) ==
    LET reached == {m \in 0..9 : m = 0 \/ n >= 10^m + (10^m \div 434294) + 1}
    IN  CHOOSE m \in reached : \A other \in reached : other <= m

leading_zeros(n) == IntLog10(n) + 1

FormattedCaseName(layer_name, i, width) == <<layer_name, "_", Format(i, width)>>

\* _determine_number_of_samples, for a mapping that holds "_numberOfSamples"
determine_number_of_samples(self) ==
    LET parameters == self.sampling_parameters
        include == IF /\ "_includeBoundingBox" \in parameters.keys
                      /\ parameters.includeBoundingBox \in {"True", "False"}
                   THEN parameters.includeBoundingBox = "True"
                   ELSE self.include_bounding_box
        bb == IF include THEN 2^self.number_of_fields ELSE self.number_of_bb_samples
        n  == parameters.numberOfSamples + bb
    IN  [self EXCEPT !.include_bounding_box = include,
                     !.number_of_bb_samples = bb,
                     !.number_of_samples = n,
                     !.leading_zeros = leading_zeros(n)]

\* _generate_case_names
generate_case_names(self) ==
    [self EXCEPT !.case_names =
        [i \in 1..self.number_of_samples |->
            FormattedCaseName(self.layer_name, i - 1, self.leading_zeros)]]

\* _generate_samples_dict
generate_samples_dict(self) == generate_case_names(determine_number_of_samples(self))

\* What the sampling engines draw: one pattern per point.  In a point of pattern
\* "low", "mid" or "high" every variable takes the same position; in a point of
\* pattern "mixed" the variables alternate between the lowest and the highest.
RowPatterns == {"low", "mid", "high", "mixed"}

Unit(pattern, j) ==
    CASE pattern = "low"  -> 0
      [] pattern = "mid"  -> 1
      [] pattern = "high" -> 2
      [] OTHER            -> IF j % 2 = 1 THEN 0 ELSE 2

Streams(n) == [1..n -> RowPatterns]

PatternAt(stream, i) == stream[((i - 1) % Len(stream)) + 1]

\* Mutant of number_of_engine_samples: the engine is asked for the corners as well.
number_of_engine_samples_with_corners(self) == self.number_of_samples

\* the number of points asked of the engine
number_of_engine_samples(self) == self.number_of_samples - self.number_of_bb_samples

\* _generate_values_using_uniform_lhs_sampling, _sobol_sampling, _hilbert_sampling:
\* points of the unit hypercube scaled to self.ranges
generate_values_in_ranges(self, stream) ==
    [i \in 1..number_of_engine_samples(self) |->
        [j \in 1..self.number_of_fields |->
            self.ranges[j][1]
            + (Unit(PatternAt(stream, i), j) * (self.ranges[j][2] - self.ranges[j][1])) \div 2]]

\* _generate_values_using_normal_lhs_sampling: mean plus or minus a deviation
generate_values_using_normal_lhs_sampling(self, stream) ==
    [i \in 1..number_of_engine_samples(self) |->
        [j \in 1..self.number_of_fields |->
            self.sampling_parameters.mu[j]
            + (Unit(PatternAt(stream, i), j) - 1) * self.sampling_parameters.sigma]]

Minimum(a, b) == IF a <= b THEN a ELSE b

Maximum(a, b) == IF a >= b THEN a ELSE b

\* Mutant of clip: only the lower bound is applied.
clip_below_only(values, ranges) ==
    [i \in 1..Len(values) |->
        [j \in 1..Len(values[i]) |-> Maximum(values[i][j], ranges[j][1])]]

\* np.clip(values, range_lower_bounds, range_upper_bounds)
clip(values, ranges) ==
    [i \in 1..Len(values) |->
        [j \in 1..Len(values[i]) |->
            Minimum(Maximum(values[i][j], ranges[j][1]), ranges[j][2])]]

\* Mutant of Product: the new element varies slowest.
ProductColumnFirst(rows, column) ==
    [p \in 1..(Len(rows) * Len(column)) |->
        Append(rows[((p - 1) % Len(rows)) + 1], column[((p - 1) \div Len(rows)) + 1])]

\* itertools.product(rows, column), flattened: the rows in order, each followed by
\* every element of column in order
Product(rows, column) ==
    [p \in 1..(Len(rows) * Len(column)) |->
        Append(rows[((p - 1) \div Len(column)) + 1], column[((p - 1) % Len(column)) + 1])]

RECURSIVE ProductOfRanges(_, _)
\* the product of the first n entries of ranges
ProductOfRanges(ranges, n) ==
    IF n = 0 THEN <<<<>>>>
    ELSE Product(ProductOfRanges(ranges, n - 1), ranges[n])

\* the number of entries of _ranges that _create_bounding_box reads
BoundingBoxWidth(self) ==
    IF Len(self.sampling_parameters.ranges) = 1 THEN 1
    ELSE Maximum(2, self.number_of_fields)

\* _create_bounding_box
create_bounding_box(self) ==
    [self EXCEPT !.bounding_box =
        ProductOfRanges(self.sampling_parameters.ranges, BoundingBoxWidth(self))]

Column(rows, j) == [i \in 1..Len(rows) |-> rows[i][j]]

Columns(rows, number_of_columns) == [j \in 1..number_of_columns |-> Column(rows, j)]

\* how a call of generate_samples ends
Outcome(self, returned, exception, values) ==
    [self |-> self, samples |-> returned, raised |-> exception, engine_values |-> values]

Raise(self, exception) == Outcome(self, NoSamples, exception, <<>>)

Return(self, columns, values) ==
    Outcome(self,
            [returned |-> TRUE, case_name |-> self.case_names,
             names |-> self.fields, values |-> columns],
            "none", values)

\* _write_values_into_samples_dict; drawn is what the engine returned
write_values_into_samples_dict(self, values, drawn) ==
    IF ~self.include_bounding_box
    THEN Return(self, Columns(values, self.number_of_fields), drawn)
    ELSE IF "_ranges" \notin self.sampling_parameters.keys
    THEN Raise(self, "KeyError")
    ELSE IF Len(self.sampling_parameters.ranges) < BoundingBoxWidth(self)
    THEN Raise(self, "IndexError")
    ELSE IF BoundingBoxWidth(self) # self.number_of_fields
    THEN Raise(create_bounding_box(self), "ShapeError")     \* np.concatenate
    ELSE Return(create_bounding_box(self),
                Columns(create_bounding_box(self).bounding_box \o values,
                        self.number_of_fields),
                drawn)

\* Mutant of generate_samples_using_fixed_sampling: the lengths are not compared.
generate_samples_using_fixed_sampling_unchecked(self) ==
    LET values == self.sampling_parameters.values
        named == generate_case_names(
                     [self EXCEPT !.number_of_samples = Len(values[1]),
                                  !.leading_zeros = leading_zeros(Len(values[1]))])
    IN  IF "_values" \notin self.sampling_parameters.keys THEN Raise(self, "KeyError")
        ELSE IF values = <<>> \/ Len(self.fields) > Len(values) THEN Raise(self, "IndexError")
        ELSE IF Len(values[1]) = 0 THEN Raise(self, "ValueError")
        ELSE Return(named, [j \in 1..Len(self.fields) |-> values[j]], <<>>)

\* _generate_samples_using_fixed_sampling
generate_samples_using_fixed_sampling(self) ==
    LET parameters == self.sampling_parameters
        values == parameters.values
        counted == [self EXCEPT !.number_of_samples = Len(values[1])]
        named == generate_case_names(
                     [counted EXCEPT !.leading_zeros = leading_zeros(Len(values[1]))])
    IN  IF "_values" \notin parameters.keys THEN Raise(self, "KeyError")
        ELSE IF values = <<>> THEN Raise(self, "IndexError")
        ELSE IF \E j \in 1..Len(values) : Len(values[j]) # Len(values[1])
        THEN Raise(self, "ValueError")
        ELSE IF Len(values[1]) = 0 THEN Raise(counted, "ValueError")     \* math.log10(0)
        ELSE IF Len(self.fields) > Len(values) THEN Raise(named, "IndexError")
        ELSE Return(named, [j \in 1..Len(self.fields) |-> values[j]], <<>>)

\* np.linspace(start, stop, num), cut to integers
linspace(start, stop, num) ==
    [i \in 1..num |-> IF num = 1 THEN start ELSE start + ((stop - start) * (i - 1)) \div (num - 1)]

\* _generate_samples_using_linspace_sampling
generate_samples_using_linspace_sampling(self) ==
    LET keys == self.sampling_parameters.keys
        named == generate_samples_dict(self)
    IN  IF "_ranges" \notin keys \/ "_numberOfSamples" \notin keys THEN Raise(self, "KeyError")
        ELSE IF Len(self.ranges) < self.number_of_fields THEN Raise(named, "IndexError")
        ELSE Return(named,
                    [j \in 1..self.number_of_fields |->
                        linspace(self.ranges[j][1], self.ranges[j][2], named.number_of_samples)],
                    <<>>)

\* _generate_samples_using_uniform_lhs_sampling, _sobol_sampling, _hilbert_sampling
generate_samples_in_ranges(self, stream) ==
    LET keys == self.sampling_parameters.keys
        named == generate_samples_dict(self)
        values == generate_values_in_ranges(named, stream)
    IN  IF \/ "_ranges" \notin keys \/ "_numberOfSamples" \notin keys
           \/ (self.sampling_type = "sobol" /\ "_onset" \notin keys)
        THEN Raise(self, "KeyError")
        ELSE IF Len(self.ranges) # self.number_of_fields
        THEN Raise(named, "ShapeError")     \* the bounds do not fit the points
        ELSE write_values_into_samples_dict(named, values, values)

\* _generate_samples_using_normal_lhs_sampling
generate_samples_using_normal_lhs_sampling(self, stream) ==
    LET keys == self.sampling_parameters.keys
        named == generate_samples_dict(self)
        values == generate_values_using_normal_lhs_sampling(named, stream)
    IN  IF "_mu" \notin keys \/ "_sigma" \notin keys \/ "_numberOfSamples" \notin keys
        THEN Raise(self, "KeyError")
        ELSE IF Len(self.sampling_parameters.mu) # self.number_of_fields
        THEN Raise(named, "ShapeError")
        ELSE IF self.ranges = <<>>
        THEN write_values_into_samples_dict(named, values, values)
        ELSE IF Len(self.ranges) # self.number_of_fields
        THEN Raise(named, "ShapeError")
        ELSE write_values_into_samples_dict(named, clip(values, self.ranges), values)

\* _generate_samples_using_arbitrary_sampling: number_of_samples values a variable
generate_samples_using_arbitrary_sampling(self, stream) ==
    LET keys == self.sampling_parameters.keys
        named == generate_samples_dict(self)
    IN  IF "_ranges" \notin keys \/ "_numberOfSamples" \notin keys THEN Raise(self, "KeyError")
        ELSE IF "_distributionName" \notin keys \/ "_distributionParameters" \notin keys
        THEN Raise(named, "KeyError")
        ELSE Return(named,
                    [j \in 1..self.number_of_fields |->
                        [i \in 1..named.number_of_samples |->
                            10 * j + Unit(PatternAt(stream, i), j)]],
                    <<>>)

generate_samples(self, stream) ==
    CASE self.sampling_type = "fixed"     -> generate_samples_using_fixed_sampling(self)
      [] self.sampling_type = "linSpace"  -> generate_samples_using_linspace_sampling(self)
      [] self.sampling_type = "normalLhs" ->
             generate_samples_using_normal_lhs_sampling(self, stream)
      [] self.sampling_type = "arbitrary" ->
             generate_samples_using_arbitrary_sampling(self, stream)
      [] self.sampling_type \in {"uniformLhs", "sobol", "hilbertCurve"} ->
             generate_samples_in_ranges(self, stream)
      [] OTHER -> Raise(self, "NotImplementedError")

\* the streams a call can draw from: one pattern for each point asked of the engine
StreamsOf(self) ==
    IF self.sampling_type \in {"fixed", "linSpace"}
       \/ "_numberOfSamples" \notin self.sampling_parameters.keys
    THEN {<<"mid">>}
    ELSE Streams(self.sampling_parameters.numberOfSamples)

GenerateSamples ==
    /\ pc = "configured"
    /\ \E stream \in StreamsOf(sampling) :
          LET outcome == generate_samples(sampling, stream)
          IN  /\ sampling' = outcome.self
              /\ samples' = outcome.samples
              /\ raised' = outcome.raised
              /\ engine_values' = outcome.engine_values
              /\ call' = [op |-> "generate_samples", arg |-> stream]
    /\ logged' = {}
    /\ pc' = "generated"
    /\ UNCHANGED case_names_at
    /\ UNCHANGED <<layers, valid_only, cases, number_of_invalid_cases, stack>>
    /\ UnchangedFilter /\ UnchangedProbe /\ UnchangedMaterial /\ UnchangedDispatch /\ UnchangedObjects

(***************************************************************************)
(* Specification of one sampler: its type is set (once or again), it is    *)
(* configured and asked for its samples.                                   *)
(***************************************************************************)
\* No case tree is being built, filtered or probed.
CasesIdle ==
    /\ layers = <<>>
    /\ valid_only = FALSE
    /\ cases = <<>>
    /\ number_of_invalid_cases = 0
    /\ stack = <<>>
    /\ filter_args = NoFilterArgs
    /\ filtered_cases = <<>>
    /\ probe = RootCase
    /\ result = TRUE
    /\ available_vars = {}
    /\ validity_log = "none"

InitSampling ==
    /\ ObjectsIdle
    /\ pc = "new"
    /\ SamplingIdle
    /\ CasesIdle
    /\ MaterialIdle
    /\ DispatchIdle

NextSampling ==
    \/ \E sampling_type \in TypeNames : SetSamplingType(sampling_type)
    \/ SetSamplingParameters
    \/ GenerateSamples

SpecSampling == InitSampling /\ [][NextSampling]_vars

(***************************************************************************)
(* Specification of the case names of one layer: a sampler configured for  *)
(* linSpace sampling of one variable counts its samples, and its case      *)
(* names are read at the first, the last and some other indices.           *)
(***************************************************************************)
MaxExponent == 6

\* the numbers of samples asked for: the numbers around the powers of ten
SampleCounts == {n \in {10^m + d : m \in 0..MaxExponent, d \in -9..10} : n >= 1}

\* the indices the list of case names is read at
IndicesRead(n) == {i \in {0, 1, 9, 10, n \div 2, n - 2, n - 1} : 0 <= i /\ i < n}

InitCaseNames ==
    /\ ObjectsIdle
    /\ pc = "configured"
    /\ \E n \in SampleCounts :
          sampling = set_sampling_parameters(
                         set_sampling_type(DiscreteSampling, "linSpace"),
                         SamplingParameters("linSpace", 1, n, "absent", "pairs", "equal"),
                         "base")
    /\ call = [op |-> "set_sampling_parameters", arg |-> ""]
    /\ samples = NoSamples
    /\ raised = "none"
    /\ logged = {}
    /\ engine_values = <<>>
    /\ case_names_at = <<>>
    /\ CasesIdle
    /\ MaterialIdle
    /\ DispatchIdle

\* _determine_number_of_samples
DetermineNumberOfSamples ==
    /\ pc = "configured"
    /\ sampling' = determine_number_of_samples(sampling)
    /\ pc' = "counted"
    /\ UNCHANGED <<call, samples, raised, logged, engine_values, case_names_at>>
    /\ UNCHANGED <<layers, valid_only, cases, number_of_invalid_cases, stack>>
    /\ UnchangedFilter /\ UnchangedProbe /\ UnchangedMaterial /\ UnchangedDispatch /\ UnchangedObjects

\* _generate_case_names: the elements of the list at the indices read
GenerateCaseNames ==
    /\ pc = "counted"
    /\ case_names_at' =
          [i \in IndicesRead(sampling.number_of_samples) |->
              FormattedCaseName(sampling.layer_name, i, sampling.leading_zeros)]
    /\ pc' = "named"
    /\ UNCHANGED <<sampling, call, samples, raised, logged, engine_values>>
    /\ UNCHANGED <<layers, valid_only, cases, number_of_invalid_cases, stack>>
    /\ UnchangedFilter /\ UnchangedProbe /\ UnchangedMaterial /\ UnchangedDispatch /\ UnchangedObjects

NextCaseNames == DetermineNumberOfSamples \/ GenerateCaseNames

SpecCaseNames == InitCaseNames /\ [][NextCaseNames]_vars

(***************************************************************************)
(* C13: for a layer with N >= 1 samples the case names are                 *)
(* layer_name + "_" + i, i = 0..N-1, with i zero-padded to the width       *)
(* floor(log10(N - eps)) + 1, so that all case names of the layer have the *)
(* same length and are pairwise distinct.                                  *)
(***************************************************************************)
\* floor(log10(N - eps)) + 1: the number of digits of N - 1, and 0 for N = 1
WidthAsStated(n) == IF n = 1 THEN 0 ELSE Len(Digits(n - 1))

Configured == sampling.sampling_parameters

NumberOfNames == Len(Configured.names)

BoundingBoxRequested ==
    "_includeBoundingBox" \in Configured.keys /\ Configured.includeBoundingBox = "True"

\* the samples of a returned dict, one row per case name
RowsOf(returned) ==
    [i \in 1..Len(returned.case_name) |->
        [j \in 1..Len(returned.values) |-> returned.values[j][i]]]

(***************************************************************************)
(* C12: whenever generate_samples returns, the dict holds one value list   *)
(* per name in _names, every value list is as long as the list of case     *)
(* names, and that length is _numberOfSamples plus 2^k when                *)
(* _includeBoundingBox is True (k names), _numberOfSamples otherwise, and  *)
(* for 'fixed' the common length of the supplied value lists.              *)
(***************************************************************************)
C12_SampleCount ==
    samples.returned =>
        /\ samples.names = Configured.names
        /\ Len(samples.values) = NumberOfNames
        /\ \A j \in 1..Len(samples.values) :
              Len(samples.values[j]) = Len(samples.case_name)
        /\ Len(samples.case_name) =
              IF sampling.sampling_type = "fixed" THEN Len(Configured.values[1])
              ELSE IF BoundingBoxRequested
                   THEN Configured.numberOfSamples + 2^NumberOfNames
                   ELSE Configured.numberOfSamples

\* uniformLhs sampling of three variables with bounding box: 2 + 8 samples
C12_Witness ==
    /\ samples.returned
    /\ sampling.sampling_type = "uniformLhs"
    /\ BoundingBoxRequested
    /\ NumberOfNames = 3
    /\ Configured.numberOfSamples = 2
    /\ Len(samples.case_name) = 10

(***************************************************************************)
(* C14: with _includeBoundingBox True and k >= 1 variables, uniformLhs,    *)
(* sobol and hilbertCurve return the 2^k corner points of the declared     *)
(* ranges first, each corner once, in the order of the cartesian product   *)
(* of the [min, max] pairs with the first variable varying slowest; the    *)
(* samples of the engine follow, as the same call returns them without     *)
(* bounding box.                                                           *)
(***************************************************************************)
\* the r-th corner (r = 0 .. 2^k - 1): variable j is at its maximum iff bit k - j of r is set
Corner(r, k, ranges) == [j \in 1..k |-> ranges[j][((r \div 2^(k - j)) % 2) + 1]]

\* the sampler of the same call without bounding box
WithoutBoundingBox(self) ==
    set_sampling_parameters(set_sampling_type(DiscreteSampling, self.sampling_type),
                            Lacking(self.sampling_parameters, "_includeBoundingBox"),
                            self.layer_name)

\* C14: the corners come first, in product order, each once; the samples of the engine follow.
C14_BoundingBoxFirst ==
    (/\ samples.returned
     /\ sampling.sampling_type \in {"uniformLhs", "sobol", "hilbertCurve"}
     /\ BoundingBoxRequested) =>
        LET k == NumberOfNames
            rows == RowsOf(samples)
            plain == generate_samples(WithoutBoundingBox(sampling), call.arg)
        IN  /\ Len(rows) >= 2^k
            /\ \A r \in 0..(2^k - 1) : rows[r + 1] = Corner(r, k, Configured.ranges)
            /\ \A r, q \in 1..(2^k) : r # q => rows[r] # rows[q]
            /\ plain.samples.returned
            /\ SubSeq(rows, 2^k + 1, Len(rows)) = RowsOf(plain.samples)

\* sobol sampling of three variables with bounding box: eight corners, then two points
C14_Witness ==
    /\ samples.returned
    /\ sampling.sampling_type = "sobol"
    /\ BoundingBoxRequested
    /\ NumberOfNames = 3
    /\ Len(samples.case_name) = 10
    /\ RowsOf(samples)[9] # RowsOf(samples)[10]

(***************************************************************************)
(* C15: 'fixed' sampling raises ValueError and returns nothing when the    *)
(* value lists supplied in _values do not all have the same length; when   *)
(* they all have the same length n it returns each supplied list unchanged *)
(* under its name, with n case names.                                      *)
(***************************************************************************)
AllSameLength(values) ==
    \A i, j \in 1..Len(values) : Len(values[i]) = Len(values[j])

FixedGenerated ==
    /\ pc = "generated"
    /\ sampling.sampling_type = "fixed"
    /\ "_values" \in Configured.keys

ReturnedAsSupplied ==
    /\ samples.returned
    /\ raised = "none"
    /\ samples.names = Configured.names
    /\ samples.values = Configured.values
    /\ Len(samples.case_name) = Len(Configured.values[1])

RegisteredTypes ==
    {"fixed", "linSpace", "uniformLhs", "normalLhs", "sobol", "arbitrary", "hilbertCurve"}

\* C16: a step of set_sampling_type stores a registered name and rejects any other
\* name with ValueError, the stored type unchanged.
C16_SetSamplingType ==
    [][call'.op = "set_sampling_type" =>
          IF call'.arg \in RegisteredTypes
          THEN sampling'.sampling_type = call'.arg /\ raised' = "none"
          ELSE raised' = "ValueError" /\ sampling'.sampling_type = sampling.sampling_type]_vars

\* an unknown name is rejected by a sampler whose type was set to sobol before
C16_Witness ==
    /\ call = [op |-> "set_sampling_type", arg |-> "random"]
    /\ raised = "ValueError"
    /\ sampling.sampling_type = "sobol"

(***************************************************************************)
(* C17: for every registered type and every key among its required         *)
(* arguments, set_sampling_parameters with a mapping that lacks the key    *)
(* logs an error and returns normally: no exception is raised.             *)
(***************************************************************************)
C17_MissingKeyIsNotFatal ==
    call.op = "set_sampling_parameters" =>
        \A kwarg \in Range(required_args(sampling.sampling_type)) :
            kwarg \notin Configured.keys =>
                /\ <<"required argument is missing", kwarg>> \in logged
                /\ raised = "none"

(***************************************************************************)
(* C18: normalLhs sampling with _ranges supplied returns every value of    *)
(* variable j inside [min_j, max_j]: a drawn value below min_j is returned *)
(* as min_j, one above max_j as max_j, one inside unchanged, and clipping  *)
(* does not reduce the number of samples.                                  *)
(***************************************************************************)
NormalLhsReturned ==
    /\ samples.returned
    /\ sampling.sampling_type = "normalLhs"
    /\ "_ranges" \in Configured.keys

\* the value returned for what the engine drew as value j of its i-th point
ReturnedFor(i, j) == samples.values[j][sampling.number_of_bb_samples + i]

ClippedIntoRanges ==
    /\ \A j \in 1..NumberOfNames : \A i \in 1..Len(samples.values[j]) :
          /\ Configured.ranges[j][1] <= samples.values[j][i]
          /\ samples.values[j][i] <= Configured.ranges[j][2]
    /\ \A i \in 1..Len(engine_values) : \A j \in 1..NumberOfNames :
          LET drawn == engine_values[i][j]
              min == Configured.ranges[j][1]
              max == Configured.ranges[j][2]
          IN  ReturnedFor(i, j) = IF drawn < min THEN min
                                  ELSE IF drawn > max THEN max ELSE drawn
    /\ Len(engine_values) = Configured.numberOfSamples
    /\ \A j \in 1..NumberOfNames :
          Len(samples.values[j]) = Len(engine_values) + sampling.number_of_bb_samples

ReturnedAsDrawn ==
    \A i \in 1..Len(engine_values) : \A j \in 1..NumberOfNames :
        ReturnedFor(i, j) = engine_values[i][j]

\* C18 (as stated): with _ranges supplied every value is clipped into its range.
C18_Original == NormalLhsReturned => ClippedIntoRanges

\* C18 (amended): with _ranges supplied as one [min, max] pair per name every value is
\* clipped into its range; _ranges of another length is not recorded and the values
\* are returned as drawn.
C18_ClippedWhenConsistent ==
    NormalLhsReturned =>
        IF check_consistency_of_ranges(Configured, Configured.ranges)
        THEN ClippedIntoRanges
        ELSE ReturnedAsDrawn

\* a call that drew a value below its range, a value above and a value inside
C18_Witness ==
    /\ NormalLhsReturned
    /\ check_consistency_of_ranges(Configured, Configured.ranges)
    /\ \E i \in 1..Len(engine_values), j \in 1..NumberOfNames :
          engine_values[i][j] < Configured.ranges[j][1]
    /\ \E i \in 1..Len(engine_values), j \in 1..NumberOfNames :
          engine_values[i][j] > Configured.ranges[j][2]
    /\ \E i \in 1..Len(engine_values), j \in 1..NumberOfNames :
          /\ engine_values[i][j] >= Configured.ranges[j][1]
          /\ engine_values[i][j] <= Configured.ranges[j][2]

(***************************************************************************)
(* The file system.  A path is a sequence of names, a name is a tuple: a   *)
(* case name <<layer, index>>, or <<"cases">>, <<"paramDict">>,            *)
(* <<"caseList">>, <<"caseList_level_", d, d>>.  directories holds the     *)
(* absolute paths that are directories, files the regular files.           *)
(***************************************************************************)
root == <<<<"/">>>>

\* Path.cwd()
cwd == root \o <<<<"work">>>>

\* environment['CASEDIR'] = 'cases', relative to the working directory
case_dir == <<<<"cases">>>>

is_absolute(path) == Len(path) > 0 /\ path[1] = root[1]

\* Path.absolute()
absolute(path) == IF is_absolute(path) THEN path ELSE cwd \o path

\* the path and its parents
Parents(path) == {SubSeq(path, 1, k) : k \in 1..Len(path)}

Content(kind, lines, entries) == [kind |-> kind, lines |-> lines, entries |-> entries]

File(path, content) == [path |-> path, content |-> content]

PathsOf(fs) == {f.path : f \in fs}

\* the content of the file at a path that is in PathsOf(fs)
Read(fs, path) == (CHOOSE f \in fs : f.path = path).content

\* open(mode='w') and write: an existing file is replaced
Write(fs, path, content) == {f \in fs : f.path # path} \cup {File(path, content)}

\* Path.mkdir(parents=True, exist_ok=True) fails where a regular file is in the way
mkdir_fails(fs, path) == \E f \in fs : f.path \in Parents(absolute(path))

mkdir(dirs, path) == dirs \cup Parents(absolute(path))

\* a file can be opened for writing in a folder that exists, at a path that is no folder
open_fails(dirs, path) == absolute(Front(path)) \notin dirs \/ absolute(path) \in dirs

(***************************************************************************)
(* create_case_folders                                                     *)
(***************************************************************************)
\* the cases the loop has dealt with when it ends: all, or those before the
\* first case whose step raises
Before(n, failing) == IF failing = {} THEN n ELSE (CHOOSE i \in failing : \A j \in failing : i <= j) - 1

Finished(op, levels, value, log) == [op |-> op, levels |-> levels, value |-> value, raised |-> "none", log |-> log]

Failed(op, levels) == [op |-> op, levels |-> levels, value |-> <<>>, raised |-> "OSError", log |-> <<>>]

number_of_case_folders_created(cs) == Len(cs)

create_case_folders(cs, dirs, fs) ==
    LET failing == {i \in 1..Len(cs) : mkdir_fails(fs, cs[i].path)}
        done == Before(Len(cs), failing)
    IN  [directories |-> dirs \cup UNION {Parents(absolute(cs[i].path)) : i \in 1..done},
         finished |-> IF done < Len(cs) THEN Failed("create_case_folders", NotGiven)
                      ELSE Finished("create_case_folders", NotGiven,
                                    number_of_case_folders_created(cs),
                                    <<number_of_case_folders_created(cs)>>)]

CreateCaseFolders ==
    /\ pc = "material"
    /\ LET after == create_case_folders(cases, directories, files)
       IN  /\ directories' = after.directories
           /\ finished' = after.finished
    /\ UNCHANGED <<files, pc>>
    /\ UNCHANGED <<layers, valid_only, cases, number_of_invalid_cases, stack>>
    /\ UnchangedFilter /\ UnchangedProbe /\ UnchangedSampling /\ UnchangedDispatch /\ UnchangedObjects

(***************************************************************************)
(* create_param_dict_files                                                 *)
(***************************************************************************)
RECURSIVE DictOf(_)
\* {name: value}: a dict keeps the place of the first assignment of a key and
\* the value of the last one
DictOf(items) ==
    IF items = <<>> THEN <<>>
    ELSE LET before == DictOf(Front(items))
             item == items[Len(items)]
         IN  IF \E k \in 1..Len(before) : before[k].name = item.name
             THEN [k \in 1..Len(before) |->
                     IF before[k].name = item.name THEN item ELSE before[k]]
             ELSE Append(before, item)

\* Case.to_dict
to_dict(c) ==
    [case |-> c.case, layer |-> c.layer, level |-> c.level, index |-> c.index,
     path |-> c.path, is_leaf |-> c.is_leaf, no_of_samples |-> c.no_of_samples,
     condition |-> c.condition, parameters |-> DictOf(c.parameters),
     commands |-> c.command_sets]

\* parameter.name and not re.match('^_', parameter.name)
Emitted(parameter) == parameter.name # "" /\ parameter.name \notin UnderscoreNames

\* the CppDict written for a case: its parameters, then the element _case
param_dict(c) ==
    Content("paramDict", <<>>,
            DictOf(SelectSeq(c.parameters, Emitted) \o <<Parameter("_case", to_dict(c))>>))

ParamDictName == <<"paramDict">>

target_file(c) == absolute(Append(c.path, ParamDictName))

RECURSIVE WriteParamDicts(_, _, _)
\* the files after the first n iterations of the loop over the cases
WriteParamDicts(fs, cs, n) ==
    IF n = 0 THEN fs
    ELSE Write(WriteParamDicts(fs, cs, n - 1), target_file(cs[n]), param_dict(cs[n]))

\* Mutant of number_of_param_dicts_created: every file written is counted.
number_of_param_dicts_written(cs) == Len(cs)

number_of_param_dicts_created(cs) == Len(SelectSeq(cs, LAMBDA c : c.is_leaf))

create_param_dict_files(cs, dirs, fs) ==
    LET failing == {i \in 1..Len(cs) : open_fails(dirs, Append(cs[i].path, ParamDictName))}
        done == Before(Len(cs), failing)
        leaf_cases == SelectSeq(cs, LAMBDA c : c.is_leaf)
    IN  [files |-> WriteParamDicts(fs, cs, done),
         finished |-> IF done < Len(cs) THEN Failed("create_param_dict_files", NotGiven)
                      ELSE Finished("create_param_dict_files", NotGiven,
                                    number_of_param_dicts_created(cs),
                                    <<number_of_param_dicts_created(cs), Len(leaf_cases)>>)]

CreateParamDictFiles ==
    /\ pc = "material"
    /\ LET after == create_param_dict_files(cases, directories, files)
       IN  /\ files' = after.files
           /\ finished' = after.finished
    /\ UNCHANGED <<directories, pc>>
    /\ UNCHANGED <<layers, valid_only, cases, number_of_invalid_cases, stack>>
    /\ UnchangedFilter /\ UnchangedProbe /\ UnchangedSampling /\ UnchangedDispatch /\ UnchangedObjects

(***************************************************************************)
(* create_case_list_files                                                  *)
(***************************************************************************)
\* re.search('(path|queue)List', str(list))
OldListNames == {<<"pathList">>, <<"queueList">>}

remove_old_case_list_files(fs) == {f \in fs : \A k \in 1..Len(f.path) : f.path[k] \notin OldListNames}

CaseListName == <<"caseList">>

\* f'caseList_level_{level:02d}'
CaseListLevelName(level) == <<"caseList_level_">> \o Format(level, 2)

\* the lines written for the cases of a sequence
LinesOf(cs) == [i \in 1..Len(cs) |-> absolute(cs[i].path)]

RECURSIVE max_level(_)
max_level(cs) ==
    IF cs = <<>> THEN 0
    ELSE LET before == max_level(Front(cs))
             level == cs[Len(cs)].level
         IN  IF level > before THEN level ELSE before

\* the truth value of the argument levels: None, 0 and an empty sequence are falsy
LevelsGiven(levels) ==
    /\ levels.given
    /\ IF levels.levels.is_int THEN levels.levels.int # 0 ELSE levels.levels.seq # <<>>

\* levels = levels or max_level; levels = [levels] if isinstance(levels, int) else levels
levels_or_max_level(levels, cs) == IF LevelsGiven(levels) THEN NormalisedLevels(levels.levels) ELSE <<max_level(cs)>>

RECURSIVE WriteLevelFiles(_, _, _, _, _)
\* the files after the first n iterations of the loop over the levels
WriteLevelFiles(fs, target_dir, cs, levels, n) ==
    IF n = 0 THEN fs
    ELSE Write(WriteLevelFiles(fs, target_dir, cs, levels, n - 1),
               Append(target_dir, CaseListLevelName(levels[n])),
               Content("caseList", LinesOf(SelectSeq(cs, LAMBDA c : c.level = levels[n])), <<>>))

create_case_list_files(cs, levels, fs) ==
    LET target_dir == cwd
        case_list_file_all_levels == Append(target_dir, CaseListName)
        for_levels == levels_or_max_level(levels, cs)
        all_levels == Write(remove_old_case_list_files(fs), case_list_file_all_levels,
                            Content("caseList", LinesOf(cs), <<>>))
        case_list_files_created ==
            <<case_list_file_all_levels>>
              \o [k \in 1..Len(for_levels) |->
                    Append(target_dir, CaseListLevelName(for_levels[k]))]
    IN  [files |-> WriteLevelFiles(all_levels, target_dir, cs, for_levels, Len(for_levels)),
         finished |-> Finished("create_case_list_files", levels, case_list_files_created,
                               [k \in 1..Len(case_list_files_created) |->
                                  case_list_files_created[k][Len(case_list_files_created[k])]])]

CreateCaseListFiles(levels) ==
    /\ pc = "material"
    /\ LET after == create_case_list_files(cases, levels, files)
       IN  /\ files' = after.files
           /\ finished' = after.finished
    /\ pc' = "listed"
    /\ UNCHANGED directories
    /\ UNCHANGED <<layers, valid_only, cases, number_of_invalid_cases, stack>>
    /\ UnchangedFilter /\ UnchangedProbe /\ UnchangedSampling /\ UnchangedDispatch /\ UnchangedObjects

(***************************************************************************)
(* Specification of the materializer, on one collection of cases and a     *)
(* file system that is new or holds what an earlier run left: the case     *)
(* folders and the paramDict files are created, in any order and any       *)
(* number of times, then the case list files are written.                  *)
(***************************************************************************)
RECURSIVE next_level_cases(_, _, _, _)
\* create_cases with valid_only False: the cases of a level from an index on,
\* each followed by the cases below it
next_level_cases(lys, level, base_case, index) ==
    IF level >= Len(lys) THEN <<>>
    ELSE IF index >= Len(lys[level + 1].case_name) THEN <<>>
    ELSE LET case == NewCase(lys, level, base_case, index)
         IN  <<case>> \o next_level_cases(lys, level + 1, case, 0)
                      \o next_level_cases(lys, level, base_case, index + 1)

\* base_case = Case(path=case_dir)
BaseCase == [RootCase EXCEPT !.path = case_dir]

AllCases(n) == next_level_cases([l \in 1..Len(n) |-> Layer("plain", l - 1, n[l], NoCondition, l = Len(n))], 0, BaseCase, 0)

\* the shapes of the case trees: the numbers of samples of the layers
Shapes == UNION {[1..L -> 0..(MaxSamples + 1)] : L \in 1..MaxLayers}

\* what create_cases and filter hand over: all cases, the leaves, one level,
\* all cases but the second sample of level 1
Collections ==
    UNION {{AllCases(n),
            filter(AllCases(n), DefaultLevels, FALSE),
            filter(AllCases(n), LevelsInt(0), FALSE),
            SelectSeq(AllCases(n), LAMBDA c : ~(c.level = 1 /\ c.index = 1))} : n \in Shapes}

StaleContent == Content("stale", <<>>, <<>>)

\* what an earlier run left in the working directory
FileSystems(cs) ==
    {[directories |-> Parents(cwd), files |-> {}],
     [directories |-> Parents(cwd), files |-> {File(Append(cwd, <<"queueList">>), StaleContent)}]}
      \cup (IF cs = <<>> THEN {}
            ELSE {[directories |-> Parents(absolute(cs[1].path)),
                   files |-> {File(target_file(cs[1]), StaleContent),
                              File(Append(absolute(cs[1].path), <<"stray">>), StaleContent)}],
                  [directories |-> Parents(absolute(Front(cs[Len(cs)].path))),
                   files |-> {File(absolute(cs[Len(cs)].path), StaleContent)}]})

LevelsArguments ==
    {NotGiven}
      \cup {Given(LevelsInt(l)) : l \in 0..MaxLayers}
      \cup {Given(LevelsSeq(s)) : s \in {<<>>, <<0>>, <<0, 1>>, <<1, 0>>, <<1, 1>>}}

InitMaterial ==
    /\ ObjectsIdle
    /\ pc = "material"
    /\ cases \in Collections
    /\ \E fs \in FileSystems(cases) :
          /\ directories = fs.directories
          /\ files = fs.files
    /\ finished = NoReturn
    /\ layers = <<>>
    /\ valid_only = FALSE
    /\ number_of_invalid_cases = 0
    /\ stack = <<>>
    /\ filter_args = NoFilterArgs
    /\ filtered_cases = <<>>
    /\ probe = RootCase
    /\ result = TRUE
    /\ available_vars = {}
    /\ validity_log = "none"
    /\ SamplingIdle
    /\ DispatchIdle

NextMaterial ==
    \/ CreateCaseFolders
    \/ CreateParamDictFiles
    \/ \E levels \in LevelsArguments : CreateCaseListFiles(levels)

SpecMaterial == InitMaterial /\ [][NextMaterial]_vars

(***************************************************************************)
(* Properties of the materializer                                          *)
(***************************************************************************)
ReturnedFrom(op) == finished.op = op /\ finished.raised = "none"

NumberOfLeafCases == Cardinality({i \in 1..Len(cases) : cases[i].is_leaf})

FolderOf(c) == cwd \o c.path

LevelsAskedFor ==
    LET levels == finished.levels.levels
    IN  IF ~finished.levels.given THEN <<>>
        ELSE IF levels.is_int THEN <<levels.int>> ELSE levels.seq

DeepestLevel ==
    LET present == {cases[i].level : i \in 1..Len(cases)} \cup {0}
    IN  CHOOSE l \in present : \A m \in present : m <= l

\* the levels a case list file is due for
LevelsDue == IF LevelsAskedFor = <<>> THEN {DeepestLevel} ELSE Range(LevelsAskedFor)

PathsAtLevel(l) == LET at == SelectSeq(cases, LAMBDA c : c.level = l) IN [i \in 1..Len(at) |-> FolderOf(at[i])]

LevelFile(l) == Append(cwd, <<"caseList_level_", l \div 10, l % 10>>)

IsLevelFile(path) == Len(path[Len(path)]) = 3 /\ path[Len(path)][1] = "caseList_level_"

\* C20: when create_case_list_files has returned, the file caseList lists the
\* path of every case in collection order, and for every requested level l
\* (one integer or a sequence, level 0 included) the file caseList_level_<l in
\* two digits> lists exactly the paths of the cases of level l in collection
\* order; the deepest level of the collection is used only when no level was
\* requested.
C20_CaseListFiles ==
    ReturnedFrom("create_case_list_files") =>
        /\ Append(cwd, <<"caseList">>) \in PathsOf(files)
        /\ Read(files, Append(cwd, <<"caseList">>)).lines = [i \in 1..Len(cases) |-> FolderOf(cases[i])]
        /\ \A l \in LevelsDue :
              /\ LevelFile(l) \in PathsOf(files)
              /\ Read(files, LevelFile(l)).lines = PathsAtLevel(l)
        /\ {path \in PathsOf(files) : IsLevelFile(path)} = {LevelFile(l) : l \in LevelsDue}

(***************************************************************************)
(* execute_command_set.  The command sets of a case are a set of entries   *)
(* [name, commands], one per key of the _commands element of its layer;    *)
(* commands is the list of shell commands of the command set.              *)
(***************************************************************************)
CommandSet(name, commands) == [name |-> name, commands |-> commands]

\* command_set in case.command_sets
defines(c, command_set) == \E e \in c.command_sets : e.name = command_set

\* case.command_sets[command_set]
shell_commands_of(c, command_set) == (CHOOSE e \in c.command_sets : e.name = command_set).commands

\* case.path.exists()
path_exists(c, dirs) == absolute(c.path) \in dirs

\* the case is appended to cases_registered
registers(c, command_set, dirs) == path_exists(c, dirs) /\ c.command_sets # {} /\ defines(c, command_set)

\* the number of iterations of the loop over the cases: it is left at the end
\* of the iteration that registers the first leaf, if test is set
iterations(cs, command_set, test, dirs) ==
    LET leaves == {i \in 1..Len(cs) : registers(cs[i], command_set, dirs) /\ cs[i].is_leaf}
    IN  IF test /\ leaves # {} THEN CHOOSE i \in leaves : \A j \in leaves : i <= j
        ELSE Len(cs)

register(cs, command_set, test, dirs) ==
    SelectSeq(SubSeq(cs, 1, iterations(cs, command_set, test, dirs)),
              LAMBDA c : registers(c, command_set, dirs))

\* Queue.put(item, block=True, timeout=None) raises TypeError when it is called
\* with more than three arguments
put_raises(args) == Len(args) > 3

\* jobs.put(execute_in_sub_process, self.command, path, self.timeout)
put_args(self, path) == <<"execute_in_sub_process", self.command, path, self.timeout>>

AsyncBatchProcessor(case_list_file, command) == [NoBatchProcessor EXCEPT !.case_list_file = case_list_file, !.command = command, !.timeout = 3600]

\* AsyncBatchProcessor.run on a case list file that exists, up to the first
\* call of jobs.put: whether run raises there
run_raises(self, lines) == lines # <<>> /\ put_raises(put_args(self, lines[1]))

RECURSIVE Flatten(_)
Flatten(seqs) == IF seqs = <<>> THEN <<>> ELSE Flatten(Front(seqs)) \o seqs[Len(seqs)]

Execution(shell_command, path) == [shell_command |-> shell_command, path |-> path]

\* os.chdir(case.path); _execute_shell_commands(shell_commands)
execute_shell_commands(c, command_set) ==
    LET shell_commands == shell_commands_of(c, command_set)
    IN  [k \in 1..Len(shell_commands) |-> Execution(shell_commands[k], absolute(c.path))]

\* the shell commands of the registered cases, as often as they occur, in order
commands_walked(registered, command_set) ==
    Flatten([i \in 1..Len(registered) |-> shell_commands_of(registered[i], command_set)])

RECURSIVE Distinct(_)
\* the keys of cases_per_shell_command in the order of their insertion
Distinct(seq) ==
    IF seq = <<>> THEN <<>>
    ELSE LET before == Distinct(Front(seq))
         IN  IF seq[Len(seq)] \in Range(before) THEN before ELSE Append(before, seq[Len(seq)])

RECURSIVE Occurrences(_, _)
Occurrences(seq, x) ==
    IF seq = <<>> THEN 0
    ELSE Occurrences(Front(seq), x) + (IF seq[Len(seq)] = x THEN 1 ELSE 0)

RECURSIVE cases_of_shell_command(_, _, _)
\* cases_per_shell_command[shell_command]: a case once for every time its list
\* names the command
cases_of_shell_command(registered, command_set, shell_command) ==
    IF registered = <<>> THEN <<>>
    ELSE LET c == registered[Len(registered)]
             n == Occurrences(shell_commands_of(c, command_set), shell_command)
         IN  cases_of_shell_command(Front(registered), command_set, shell_command)
               \o [k \in 1..n |-> c]

CaseListForCommandName(index) == <<"caseList_for_command_", index>>

\* the batch branch: the case list file of the first command is written and
\* handed to AsyncBatchProcessor.run, which raises in its first call of put
execute_in_batches(registered, command_set, fs) ==
    LET shell_commands == Distinct(commands_walked(registered, command_set))
        case_list_file == Append(cwd, CaseListForCommandName(0))
        lines == LinesOf(cases_of_shell_command(registered, command_set, shell_commands[1]))
        batch == AsyncBatchProcessor(case_list_file, shell_commands[1])
        exception == IF run_raises(batch, lines) THEN "TypeError" ELSE "none"
    IN  IF shell_commands = <<>>
        THEN [files |-> fs, raised |-> "none", batch_processor |-> NoBatchProcessor]
        ELSE [files |-> Write(fs, case_list_file, Content("caseList", lines, <<>>)),
              raised |-> exception,
              batch_processor |-> [batch EXCEPT !.lines = lines, !.pc = "put",
                                          !.raised = exception]]

\* the branch without batches
execute_in_sequence(registered, command_set) ==
    Flatten([i \in 1..Len(registered) |-> execute_shell_commands(registered[i], command_set)])

execute_command_set(cs, command_set, batch, test, dirs, fs) ==
    LET registered == register(cs, command_set, test, dirs)
        batches == execute_in_batches(registered, command_set, fs)
        exception == IF batch THEN batches.raised ELSE "none"
    IN  [cases_registered |-> registered,
         executions |-> IF batch THEN <<>> ELSE execute_in_sequence(registered, command_set),
         files |-> IF batch THEN batches.files ELSE fs,
         batch_processor |-> IF batch THEN batches.batch_processor ELSE NoBatchProcessor,
         dispatched |-> IF exception # "none"
                        THEN [returned |-> FALSE, value |-> 0, raised |-> exception, log |-> <<>>]
                        ELSE [returned |-> TRUE, value |-> Len(registered), raised |-> "none",
                              log |-> IF test /\ registered # <<>>
                                      THEN <<registered[Len(registered)].path>> ELSE <<>>]]

ExecuteCommandSet(command_set, batch, test) ==
    /\ pc = "execute"
    /\ LET after == execute_command_set(cases, command_set, batch, test, directories, files)
       IN  /\ cases_registered' = after.cases_registered
           /\ executions' = after.executions
           /\ files' = after.files
           /\ batch_processor' = after.batch_processor
           /\ dispatched' = after.dispatched
    /\ command_args' = [command_set |-> command_set, batch |-> batch, test |-> test]
    /\ pc' = "executed"
    /\ UNCHANGED <<directories, finished, jobs, unfinished_tasks, workers, job_log>>
    /\ UNCHANGED <<layers, valid_only, cases, number_of_invalid_cases, stack>>
    /\ UnchangedFilter /\ UnchangedProbe /\ UnchangedSampling /\ UnchangedObjects

(***************************************************************************)
(* Specification of one call of execute_command_set on the cases of a      *)
(* farn dict whose layers define command sets, in a working directory      *)
(* where all, some or none of the case folders exist.                      *)
(***************************************************************************)
CommandSetNames == {"run", "prepare"}

MeshCommands == <<"mesh0", "mesh1", "mesh2", "mesh3">>

\* the _commands element of the layer of a level
CommandsOfLayer(level) ==
    {{},
     {CommandSet("run", <<"solve">>)},
     {CommandSet("prepare", <<"copy", "link">>)},
     {CommandSet("run", <<"link", "solve", "link">>), CommandSet("prepare", <<"copy">>)},
     {CommandSet("run", <<MeshCommands[level + 1], "solve">>)},
     {CommandSet("run", <<>>)}}

CasesWithCommands(n, commands) == next_level_cases([l \in 1..Len(n) |-> [Layer("plain", l - 1, n[l], NoCondition, l = Len(n)) EXCEPT !.commands = commands[l]]], 0, BaseCase, 0)

ExecuteShapes == UNION {[1..L -> 1..MaxSamples] : L \in 1..MaxLayers}

ExecuteCollections ==
    UNION {{CasesWithCommands(n, commands) :
                commands \in [1..Len(n) -> UNION {CommandsOfLayer(l - 1) : l \in 1..Len(n)}]}
           : n \in ExecuteShapes}

\* the case folders that exist: all, none, all but those of the first case
\* and the cases below it, all but the first leaf
FoldersOf(cs) ==
    LET all == UNION {Parents(absolute(cs[i].path)) : i \in 1..Len(cs)}
        first_leaf == CHOOSE i \in 1..Len(cs) : cs[i].is_leaf /\ \A j \in 1..(i - 1) : ~cs[j].is_leaf
    IN  {all, Parents(cwd),
         {d \in all : ~IsPrefix(absolute(cs[1].path), d)},
         all \ {absolute(cs[first_leaf].path)}}

InitExecute ==
    /\ ObjectsIdle
    /\ pc = "execute"
    /\ cases \in ExecuteCollections
    /\ directories \in FoldersOf(cases)
    /\ files = {}
    /\ finished = NoReturn
    /\ DispatchIdle
    /\ layers = <<>>
    /\ valid_only = FALSE
    /\ number_of_invalid_cases = 0
    /\ stack = <<>>
    /\ filter_args = NoFilterArgs
    /\ filtered_cases = <<>>
    /\ probe = RootCase
    /\ result = TRUE
    /\ available_vars = {}
    /\ validity_log = "none"
    /\ SamplingIdle

NextExecute == \E command_set \in CommandSetNames, batch \in BOOLEAN, test \in BOOLEAN : ExecuteCommandSet(command_set, batch, test)

SpecExecute == InitExecute /\ [][NextExecute]_vars

(***************************************************************************)
(* Properties of execute_command_set                                       *)
(***************************************************************************)
Ended == pc = "executed"

\* the cases whose folder exists and whose command sets hold the requested name
Candidates ==
    {i \in 1..Len(cases) :
        /\ cwd \o cases[i].path \in directories
        /\ \E e \in cases[i].command_sets : e.name = command_args.command_set}

FirstLeafCandidates == {i \in Candidates : cases[i].is_leaf /\ \A j \in Candidates : cases[j].is_leaf => i <= j}

FoldersExecutedIn == {executions[k].path : k \in 1..Len(executions)}

\* the shell commands of the requested command set of a case, each executed in
\* the folder of the case, in the order of the list
CommandsExecutedIn(c) ==
    LET commands == (CHOOSE e \in c.command_sets : e.name = command_args.command_set).commands
    IN  [k \in 1..Len(commands) |-> [shell_command |-> commands[k], path |-> cwd \o c.path]]

\* C21: in test mode the command set is executed in exactly one case folder,
\* that of the first leaf case in collection order whose path exists and
\* whose command sets hold the requested name; no other case, in particular
\* no ancestor of that leaf that defines the command set too, is selected or
\* has the commands executed.
C21_TestRunsFirstLeafOnly ==
    (Ended /\ command_args.test) =>
        /\ \A i \in FirstLeafCandidates :
              /\ cases_registered = <<cases[i]>>
              /\ executions = CommandsExecutedIn(cases[i])
        /\ FoldersExecutedIn \subseteq {cwd \o cases[i].path : i \in FirstLeafCandidates}

(***************************************************************************)
(* AsyncBatchProcessor.run, step by step: the case list file is checked    *)
(* and read, the jobs are put, the worker threads are created, the queue   *)
(* is joined.  A worker thread that waits in get on an empty queue takes   *)
(* no step.                                                                *)
(***************************************************************************)
MaxJobs == 2
MaxWorkers == 2

\* if not self.case_list_file.is_file(): return; cases = f.readlines()
RunReadCaseList ==
    /\ pc = "batch"
    /\ batch_processor.pc = "run"
    /\ IF batch_processor.case_list_file \in PathsOf(files)
       THEN batch_processor' = [batch_processor EXCEPT
                                   !.lines = Read(files, batch_processor.case_list_file).lines,
                                   !.pc = "put"]
       ELSE batch_processor' = [batch_processor EXCEPT !.error = "File not found", !.pc = "returned"]
    /\ UNCHANGED <<pc, jobs, unfinished_tasks, workers, job_log>>
    /\ UNCHANGED <<directories, files, finished>>
    /\ UnchangedExecute
    /\ UNCHANGED <<layers, valid_only, cases, number_of_invalid_cases, stack>>
    /\ UnchangedFilter /\ UnchangedProbe /\ UnchangedSampling /\ UnchangedObjects

\* the loop over the lines: jobs.put(execute_in_sub_process, self.command, path,
\* self.timeout) raises in the first iteration; without lines there is none
RunPut ==
    /\ pc = "batch"
    /\ batch_processor.pc = "put"
    /\ batch_processor' = IF run_raises(batch_processor, batch_processor.lines)
                          THEN [batch_processor EXCEPT !.pc = "raised", !.raised = "TypeError"]
                          ELSE [batch_processor EXCEPT !.pc = "start"]
    /\ UNCHANGED <<pc, jobs, unfinished_tasks, workers, job_log>>
    /\ UNCHANGED <<directories, files, finished>>
    /\ UnchangedExecute
    /\ UNCHANGED <<layers, valid_only, cases, number_of_invalid_cases, stack>>
    /\ UnchangedFilter /\ UnchangedProbe /\ UnchangedSampling /\ UnchangedObjects

\* if self.max_number_of_cpus: number_of_cpus = min(number_of_cpus, int(self.max_number_of_cpus))
number_of_cpus(self, cpu_count) ==
    IF self.max_number_of_cpus # 0 /\ self.max_number_of_cpus < cpu_count
    THEN self.max_number_of_cpus ELSE cpu_count

\* Worker(jobs): the thread is started and waits in self.job_queue.get()
Worker == [pc |-> "get", job |-> 0, exceptions |-> 0]

\* thread_pool = [Worker(jobs) for _ in range(number_of_cpus)]
RunStartWorkers(cpu_count) ==
    /\ pc = "batch"
    /\ batch_processor.pc = "start"
    /\ LET n == number_of_cpus(batch_processor, cpu_count)
       IN  /\ workers' = [w \in 1..n |-> Worker]
           /\ batch_processor' = [batch_processor EXCEPT !.number_of_cpus = n, !.pc = "join"]
    /\ UNCHANGED <<pc, jobs, unfinished_tasks, job_log>>
    /\ UNCHANGED <<directories, files, finished>>
    /\ UnchangedExecute
    /\ UNCHANGED <<layers, valid_only, cases, number_of_invalid_cases, stack>>
    /\ UnchangedFilter /\ UnchangedProbe /\ UnchangedSampling /\ UnchangedObjects

\* jobs.join() returns when no task is unfinished
RunJoin ==
    /\ pc = "batch"
    /\ batch_processor.pc = "join"
    /\ unfinished_tasks = 0
    /\ batch_processor' = [batch_processor EXCEPT !.pc = "returned"]
    /\ UNCHANGED <<pc, jobs, unfinished_tasks, workers, job_log>>
    /\ UNCHANGED <<directories, files, finished>>
    /\ UnchangedExecute
    /\ UNCHANGED <<layers, valid_only, cases, number_of_invalid_cases, stack>>
    /\ UnchangedFilter /\ UnchangedProbe /\ UnchangedSampling /\ UnchangedObjects

(***************************************************************************)
(* Specification of one call of AsyncBatchProcessor.run, on a case list    *)
(* file of up to MaxJobs lines or on a file that does not exist.           *)
(***************************************************************************)
BatchCommands == {"solve", "link"}

BatchFolders == {cwd \o case_dir \o <<CaseName(LayerName(0), i)>> : i \in 0..1}

BatchCaseListFile == Append(cwd, CaseListForCommandName(0))

BatchFiles ==
    {{}} \cup {{File(BatchCaseListFile, Content("caseList", lines, <<>>))} :
                 lines \in SeqsUpTo(BatchFolders, MaxJobs)}

InitBatch ==
    /\ ObjectsIdle
    /\ pc = "batch"
    /\ files \in BatchFiles
    /\ \E command \in BatchCommands, max_number_of_cpus \in 0..MaxWorkers :
          batch_processor = [AsyncBatchProcessor(BatchCaseListFile, command) EXCEPT
                                !.max_number_of_cpus = max_number_of_cpus, !.pc = "run"]
    /\ directories = Parents(cwd)
    /\ finished = NoReturn
    /\ command_args = NoCommandArgs
    /\ cases_registered = <<>>
    /\ executions = <<>>
    /\ dispatched = NoDispatch
    /\ jobs = <<>>
    /\ unfinished_tasks = 0
    /\ workers = <<>>
    /\ job_log = <<>>
    /\ CasesIdle
    /\ SamplingIdle

NextBatch ==
    \/ RunReadCaseList
    \/ RunPut
    \/ \E cpu_count \in 1..MaxWorkers : RunStartWorkers(cpu_count)
    \/ RunJoin

SpecBatch == InitBatch /\ [][NextBatch]_vars

RunEnded == pc = "batch" /\ batch_processor.pc \in {"returned", "raised"}

\* C22: when run has ended on a case list file that exists, it has returned,
\* it has put one job into the queue for every line of the file, every job
\* has been executed exactly once, by one worker thread, no more than
\* min(cpu count, configured maximum) worker threads were at work, and no
\* job is unfinished.
C22_RunExecutesEveryLine ==
    (RunEnded /\ BatchCaseListFile \in PathsOf(files)) =>
        /\ batch_processor.raised = "none"
        /\ batch_processor.queued = Len(batch_processor.lines)
        /\ Len(job_log) = Len(batch_processor.lines)
        /\ \A j \in 1..Len(job_log) :
              /\ job_log[j].args = <<batch_processor.command, batch_processor.lines[j], batch_processor.timeout>>
              /\ job_log[j].executed = 1
              /\ job_log[j].worker \in 1..Len(workers)
        /\ Len(workers) <= MaxWorkers
        /\ batch_processor.max_number_of_cpus # 0 =>
              Len(workers) <= batch_processor.max_number_of_cpus
        /\ unfinished_tasks = 0

(***************************************************************************)
(* JobQueue and Worker.  jobs holds the numbers of the items in the queue, *)
(* in the order of put; job_log holds for every item put what has happened *)
(* to it: the worker that took it, how often it was executed, whether the  *)
(* call raised, how often the exception was logged and how often the item  *)
(* was marked as done.  A worker counts the exceptions it has logged.      *)
(***************************************************************************)
Job(args) == [args |-> args, worker |-> 0, executed |-> 0, raised |-> FALSE, logged |-> 0, done |-> 0, after_exception |-> FALSE]

\* JobQueue.put_callable(func, *args): super().put(item=(func, args, kwargs))
PutCallable(args) ==
    /\ pc = "pool"
    /\ Len(job_log) < MaxJobs
    /\ job_log' = Append(job_log, Job(args))
    /\ jobs' = Append(jobs, Len(job_log) + 1)
    /\ unfinished_tasks' = unfinished_tasks + 1
    /\ UNCHANGED <<pc, workers, batch_processor>>
    /\ UNCHANGED <<directories, files, finished>>
    /\ UnchangedExecute
    /\ UNCHANGED <<layers, valid_only, cases, number_of_invalid_cases, stack>>
    /\ UnchangedFilter /\ UnchangedProbe /\ UnchangedSampling /\ UnchangedObjects

\* Worker(job_queue): Thread.__init__, self.start()
StartWorker ==
    /\ pc = "pool"
    /\ Len(workers) < MaxWorkers
    /\ workers' = Append(workers, Worker)
    /\ UNCHANGED <<pc, jobs, unfinished_tasks, job_log, batch_processor>>
    /\ UNCHANGED <<directories, files, finished>>
    /\ UnchangedExecute
    /\ UNCHANGED <<layers, valid_only, cases, number_of_invalid_cases, stack>>
    /\ UnchangedFilter /\ UnchangedProbe /\ UnchangedSampling /\ UnchangedObjects

\* func, args, kwargs = self.job_queue.get(): blocks while the queue is empty
WorkerGet(w) ==
    /\ pc \in {"pool", "join", "joined"}
    /\ w \in 1..Len(workers)
    /\ workers[w].pc = "get"
    /\ jobs # <<>>
    /\ jobs' = Tail(jobs)
    /\ workers' = [workers EXCEPT ![w].pc = "call", ![w].job = Head(jobs)]
    /\ job_log' = [job_log EXCEPT ![Head(jobs)].worker = w,
                                   ![Head(jobs)].after_exception = workers[w].exceptions > 0]
    /\ UNCHANGED <<pc, unfinished_tasks, batch_processor>>
    /\ UNCHANGED <<directories, files, finished>>
    /\ UnchangedExecute
    /\ UNCHANGED <<layers, valid_only, cases, number_of_invalid_cases, stack>>
    /\ UnchangedFilter /\ UnchangedProbe /\ UnchangedSampling /\ UnchangedObjects

\* Mutant of after_call: an exception of the job ends the thread.
after_call_unhandled(raises) == IF raises THEN "dead" ELSE "finally"

\* where the worker goes on after func(*args, **kwargs): an exception is caught
\* and logged, and the finally clause follows in both cases
after_call(raises) == "finally"

\* func(*args, **kwargs), which returns or raises; except Exception: logger.exception
WorkerCall(w, raises) ==
    /\ pc \in {"pool", "join", "joined"}
    /\ w \in 1..Len(workers)
    /\ workers[w].pc = "call"
    /\ LET job == workers[w].job
           logs == raises /\ after_call(raises) # "dead"
       IN  /\ job_log' = [job_log EXCEPT ![job].executed = @ + 1,
                                         ![job].raised = raises,
                                         ![job].logged = @ + BoolToInt(logs)]
           /\ workers' = [workers EXCEPT ![w].pc = after_call(raises),
                                         ![w].exceptions = @ + BoolToInt(logs)]
    /\ UNCHANGED <<pc, jobs, unfinished_tasks, batch_processor>>
    /\ UNCHANGED <<directories, files, finished>>
    /\ UnchangedExecute
    /\ UNCHANGED <<layers, valid_only, cases, number_of_invalid_cases, stack>>
    /\ UnchangedFilter /\ UnchangedProbe /\ UnchangedSampling /\ UnchangedObjects

\* finally: self.job_queue.task_done(), then the next turn of while True
WorkerTaskDone(w) ==
    /\ pc \in {"pool", "join", "joined"}
    /\ w \in 1..Len(workers)
    /\ workers[w].pc = "finally"
    /\ unfinished_tasks' = unfinished_tasks - 1
    /\ job_log' = [job_log EXCEPT ![workers[w].job].done = @ + 1]
    /\ workers' = [workers EXCEPT ![w].pc = "get", ![w].job = 0]
    /\ UNCHANGED <<pc, jobs, batch_processor>>
    /\ UNCHANGED <<directories, files, finished>>
    /\ UnchangedExecute
    /\ UNCHANGED <<layers, valid_only, cases, number_of_invalid_cases, stack>>
    /\ UnchangedFilter /\ UnchangedProbe /\ UnchangedSampling /\ UnchangedObjects

\* the thread that filled the queue calls jobs.join()
CallJoin ==
    /\ pc = "pool"
    /\ pc' = "join"
    /\ UnchangedBatch
    /\ UNCHANGED <<directories, files, finished>>
    /\ UnchangedExecute
    /\ UNCHANGED <<layers, valid_only, cases, number_of_invalid_cases, stack>>
    /\ UnchangedFilter /\ UnchangedProbe /\ UnchangedSampling /\ UnchangedObjects

\* Queue.join returns when unfinished_tasks is 0
ReturnFromJoin ==
    /\ pc = "join"
    /\ unfinished_tasks = 0
    /\ pc' = "joined"
    /\ UnchangedBatch
    /\ UNCHANGED <<directories, files, finished>>
    /\ UnchangedExecute
    /\ UNCHANGED <<layers, valid_only, cases, number_of_invalid_cases, stack>>
    /\ UnchangedFilter /\ UnchangedProbe /\ UnchangedSampling /\ UnchangedObjects

(***************************************************************************)
(* Specification of a JobQueue that is filled with put_callable and served *)
(* by Worker threads, and then joined.  Every started thread gets its turn *)
(* and every job ends, returning or raising (execute_in_sub_process ends   *)
(* a subprocess at its timeout).                                           *)
(***************************************************************************)
JobArgs == {<<"solve", folder, 3600>> : folder \in BatchFolders}

InitWorkers ==
    /\ ObjectsIdle
    /\ pc = "pool"
    /\ batch_processor = NoBatchProcessor
    /\ jobs = <<>>
    /\ unfinished_tasks = 0
    /\ workers = <<>>
    /\ job_log = <<>>
    /\ command_args = NoCommandArgs
    /\ cases_registered = <<>>
    /\ executions = <<>>
    /\ dispatched = NoDispatch
    /\ MaterialIdle
    /\ CasesIdle
    /\ SamplingIdle

NextWorkers ==
    \/ \E args \in JobArgs : PutCallable(args)
    \/ StartWorker
    \/ \E w \in 1..MaxWorkers : WorkerGet(w)
    \/ \E w \in 1..MaxWorkers, raises \in BOOLEAN : WorkerCall(w, raises)
    \/ \E w \in 1..MaxWorkers : WorkerTaskDone(w)
    \/ CallJoin
    \/ ReturnFromJoin

Fairness ==
    /\ \A w \in 1..MaxWorkers : WF_vars(WorkerGet(w))
    /\ \A w \in 1..MaxWorkers : WF_vars(\E raises \in BOOLEAN : WorkerCall(w, raises))
    /\ \A w \in 1..MaxWorkers : WF_vars(WorkerTaskDone(w))
    /\ WF_vars(ReturnFromJoin)

SpecWorkers == InitWorkers /\ [][NextWorkers]_vars /\ Fairness

(***************************************************************************)
(* Properties of the worker threads                                        *)
(***************************************************************************)
RECURSIVE NumberDone(_)
NumberDone(n) == IF n = 0 THEN 0 ELSE NumberDone(n - 1) + job_log[n].done

\* a job is executed and marked as done at most once, marked only after its
\* execution, an exception is logged once by a worker that goes on, and join
\* has returned only when every job was executed and marked
WorkersSafe ==
    /\ \A j \in 1..Len(job_log) :
          /\ job_log[j].executed <= 1
          /\ job_log[j].done <= job_log[j].executed
          /\ job_log[j].executed = 1 =>
                /\ job_log[j].logged = BoolToInt(job_log[j].raised)
                /\ workers[job_log[j].worker].pc \in {"get", "call", "finally"}
                /\ (workers[job_log[j].worker].job # j) => job_log[j].done = 1
    /\ unfinished_tasks = Len(job_log) - NumberDone(Len(job_log))
    /\ pc = "joined" => \A j \in 1..Len(job_log) : job_log[j].executed = 1 /\ job_log[j].done = 1

JobFinished(j) == Len(job_log) >= j /\ job_log[j].executed = 1 /\ job_log[j].done = 1

\* C23: a job that raises an exception in a worker thread does not stop the
\* others: the worker logs the exception, marks the job as done exactly once
\* and takes further jobs; with a worker thread started, every job in the
\* queue is executed and marked as done in the end, whether jobs raise or
\* not, and a join of the queue returns.
C23_RaisingJobDoesNotStopWorkers ==
    /\ []WorkersSafe
    /\ \A j \in 1..MaxJobs : (Len(job_log) >= j /\ workers # <<>>) ~> JobFinished(j)
    /\ (pc = "join" /\ workers # <<>>) ~> (pc = "joined")

\* A job has raised, its worker has logged the exception and has then taken
\* and executed a further job, and the join has returned.
C23_Witness ==
    /\ pc = "joined"
    /\ \E i, j \in 1..Len(job_log) :
          /\ job_log[i].raised /\ job_log[i].logged = 1 /\ job_log[i].done = 1
          /\ i # j
          /\ job_log[j].worker = job_log[i].worker
          /\ job_log[j].after_exception
          /\ job_log[j].executed = 1 /\ job_log[j].done = 1

(***************************************************************************)
(* C24: when the layer at level L has no _samples element, or a _samples   *)
(* element without _case_name, create_cases ends and returns the cases of  *)
(* the levels below L that it returns for the first L layers alone, in the *)
(* same order: no case of level L or deeper, and no case that is a leaf.   *)
(***************************************************************************)
\* the levels whose layer fails the validity checks
LevelsAborted ==
    {l \in 0..(NumberOfLayers - 1) :
        ~layers[l + 1].samples_present \/ ~layers[l + 1].case_name_present}

FirstLevelAborted == CHOOSE l \in LevelsAborted : \A k \in LevelsAborted : l <= k

RECURSIVE CasesCreatedFor(_, _, _, _, _)
\* what create_cases returns for layers that all pass the validity checks: the
\* cases kept of a level from an index on, each followed by the cases below it
CasesCreatedFor(lys, vo, level, base_case, index) ==
    IF level >= Len(lys) THEN <<>>
    ELSE IF index >= Len(lys[level + 1].case_name) THEN <<>>
    ELSE LET case == NewCase(lys, level, base_case, index)
             below == IF Keep(vo, case)
                      THEN <<case>> \o CasesCreatedFor(lys, vo, level + 1, case, 0)
                      ELSE <<>>
         IN  below \o CasesCreatedFor(lys, vo, level, base_case, index + 1)

\* the cases of the configuration cut down to its first L layers, none of them
\* marked as a leaf
CasesOfFirstLayers(L) ==
    LET cut == CasesCreatedFor(SubSeq(layers, 1, L), valid_only, 0, RootCase, 0)
    IN  [i \in 1..Len(cut) |-> [cut[i] EXCEPT !.is_leaf = FALSE]]

Ids(heap, n) == [k \in 1..n |-> Len(heap) + k]

NoObjects(heap) == [references |-> <<>>, objects |-> heap]

RECURSIVE create_next_level_objects(_, _, _, _, _)
RECURSIVE loop_over_case_names(_, _, _, _, _, _, _)
\* One call of create_next_level_cases, valid_only False: the user variables of the
\* layer that are kept become objects once, before the loop over the case names.
create_next_level_objects(lys, level, base_case, base_references, heap) ==
    LET current_layer == lys[level + 1]
        user_variables == user_variables_in_current_layer(current_layer, base_case)
    IN  IF ~current_layer.samples_present \/ ~current_layer.case_name_present
        THEN NoObjects(heap)
        ELSE loop_over_case_names(lys, level, base_case, base_references,
                                  Ids(heap, Len(user_variables)), 0,
                                  heap \o user_variables)

\* The loop from an index on.  case_parameters is a new list of the objects the
\* base case refers to (`[parameter for parameter in base_case.parameters if
\* parameter.name]`), extended by one new object for each sampled parameter and
\* by the objects of the user variables.
loop_over_case_names(lys, level, base_case, base_references, user_references, index, heap) ==
    LET current_layer == lys[level + 1]
        own == parameter_names_in_current_layer(current_layer, base_case)
        sampled == [k \in 1..Len(own) |->
                      Parameter(own[k], SampleAt(current_layer, own[k], index))]
        case_references == SelectSeq(base_references, LAMBDA id : heap[id].name # "")
                              \o Ids(heap, Len(sampled))
                              \o user_references
        case == NewCase(lys, level, base_case, index)
        below == IF case.is_leaf
                 THEN NoObjects(heap \o sampled)
                 ELSE create_next_level_objects(lys, level + 1, case, case_references,
                                                heap \o sampled)
        rest == loop_over_case_names(lys, level, base_case, base_references,
                                     user_references, index + 1, below.objects)
    IN  IF index >= Len(current_layer.case_name)
        THEN NoObjects(heap)
        ELSE [references |-> <<case_references>> \o below.references \o rest.references,
              objects |-> rest.objects]

\* create_cases(farn_dict, case_dir, valid_only=False)
CreateCasesOfObjects ==
    /\ pc = "objects"
    /\ cases' = next_level_cases(layers, 0, BaseCase, 0)
    /\ LET created == create_next_level_objects(layers, 0, BaseCase, <<>>, <<>>)
       IN  /\ objects' = created.objects
           /\ references' = created.references
    /\ pc' = "created"
    /\ UNCHANGED <<layers, valid_only, number_of_invalid_cases, stack, edit>>
    /\ UnchangedFilter /\ UnchangedProbe /\ UnchangedSampling /\ UnchangedMaterial /\ UnchangedDispatch

Edit(op, case, position, parameters) ==
    [op |-> op, case |-> case, position |-> position, parameters |-> parameters]

\* `case.parameters[position].name = name` or `... .value = value`, for the case
\* at an index of the collection
SetAttribute(i, k, attribute) ==
    /\ pc = "created"
    /\ i \in 1..Len(references) /\ k \in 1..Len(references[i])
    /\ objects' = [objects EXCEPT ![references[i][k]] =
                      IF attribute = "name" THEN [@ EXCEPT !.name = "renamed"]
                                            ELSE [@ EXCEPT !.value = -1]]
    /\ edit' = Edit(attribute, i, k, <<>>)
    /\ pc' = "edited"
    /\ UNCHANGED <<layers, valid_only, cases, number_of_invalid_cases, stack, references>>
    /\ UnchangedFilter /\ UnchangedProbe /\ UnchangedSampling /\ UnchangedMaterial /\ UnchangedDispatch

\* the argument of add_parameters: a sequence of Parameter objects, a mapping of
\* names to values (items in dict order), or anything else
Argument(kind, items) == [kind |-> kind, items |-> items]

\* Case.add_parameters on a parameters list: a sequence extends the list by its
\* objects, a mapping by one new object for each item; anything else is an error
\* that is logged.
add_parameters(self, heap, parameters) ==
    IF parameters.kind \in {"sequence", "mapping"}
    THEN [references |-> self \o Ids(heap, Len(parameters.items)),
          objects |-> heap \o parameters.items]
    ELSE [references |-> self, objects |-> heap]

CaseAddParameters(i, parameters) ==
    /\ pc = "created"
    /\ i \in 1..Len(references)
    /\ LET added == add_parameters(references[i], objects, parameters)
       IN  /\ references' = [references EXCEPT ![i] = added.references]
           /\ objects' = added.objects
    /\ edit' = Edit("Case.add_parameters", i, 0, parameters)
    /\ pc' = "added"
    /\ UNCHANGED <<layers, valid_only, cases, number_of_invalid_cases, stack>>
    /\ UnchangedFilter /\ UnchangedProbe /\ UnchangedSampling /\ UnchangedMaterial /\ UnchangedDispatch

\* deepcopy of a list of cases: every object referred to is copied once, and the
\* copies refer to each other as the originals do
deepcopy(self, heap) ==
    [references |-> [i \in 1..Len(self) |->
                       [k \in 1..Len(self[i]) |-> Len(heap) + self[i][k]]],
     objects |-> heap \o heap]

RECURSIVE add_parameters_to_each(_, _, _, _)
\* `for case in _cases: case.add_parameters(parameters)`, from a position on
add_parameters_to_each(_cases, heap, parameters, i) ==
    IF i > Len(_cases) THEN [references |-> _cases, objects |-> heap]
    ELSE LET added == add_parameters(_cases[i], heap, parameters)
         IN  add_parameters_to_each([_cases EXCEPT ![i] = added.references],
                                    added.objects, parameters, i + 1)

\* Mutant of cases_add_parameters: the loop runs over the collection itself.
cases_add_parameters_in_place(self, heap, parameters) ==
    add_parameters_to_each(self, heap, parameters, 1)

\* Cases.add_parameters: the loop runs over `_cases = deepcopy(self)`, which is
\* dropped at the return; the collection refers to what it referred to before.
cases_add_parameters(self, heap, parameters) ==
    LET copy == deepcopy(self, heap)
        _cases == add_parameters_to_each(copy.references, copy.objects, parameters, 1)
    IN  [references |-> self, objects |-> _cases.objects]

CasesAddParameters(parameters) ==
    /\ pc = "created"
    /\ LET added == cases_add_parameters(references, objects, parameters)
       IN  /\ references' = added.references
           /\ objects' = added.objects
    /\ edit' = Edit("Cases.add_parameters", 0, 0, parameters)
    /\ pc' = "added"
    /\ UNCHANGED <<layers, valid_only, cases, number_of_invalid_cases, stack>>
    /\ UnchangedFilter /\ UnchangedProbe /\ UnchangedSampling /\ UnchangedMaterial /\ UnchangedDispatch

(***************************************************************************)
(* Specification of the parameters of the cases as objects: create_cases   *)
(* builds the cases of a configuration without conditions, then one        *)
(* attribute of one parameter of one case is set, or parameters are added  *)
(* to one case or to the collection.                                       *)
(***************************************************************************)
ObjectConfigurations ==
    UNION {{[l \in 1..L |-> Layer(scheme, l - 1, n[l], NoCondition, l = L)] :
               n \in [1..L -> 1..MaxSamples]}
           : L \in 1..MaxLayers, scheme \in {"plain", "collide"}}

ExtraParameters == <<Parameter("extra0", 7), Parameter("extra1", 8)>>

Arguments ==
    {Argument("sequence", SubSeq(ExtraParameters, 1, 1)),
     Argument("sequence", ExtraParameters),
     Argument("mapping", ExtraParameters),
     Argument("mapping", <<>>),
     Argument("none", <<>>)}

RECURSIVE CasesUpTo(_)
\* the greatest number of cases of a configuration of L layers
CasesUpTo(L) == IF L = 0 THEN 0 ELSE MaxSamples * (1 + CasesUpTo(L - 1))

InitObjects ==
    /\ layers \in ObjectConfigurations
    /\ valid_only = FALSE
    /\ cases = <<>>
    /\ number_of_invalid_cases = 0
    /\ stack = <<>>
    /\ pc = "objects"
    /\ ObjectsIdle
    /\ filter_args = NoFilterArgs
    /\ filtered_cases = <<>>
    /\ probe = RootCase
    /\ result = TRUE
    /\ available_vars = {}
    /\ validity_log = "none"
    /\ SamplingIdle
    /\ MaterialIdle
    /\ DispatchIdle

NextObjects ==
    \/ CreateCasesOfObjects
    \/ \E i \in 1..CasesUpTo(MaxLayers), k \in 1..(MaxLayers + 3), attribute \in {"name", "value"} :
          SetAttribute(i, k, attribute)
    \/ \E i \in 1..CasesUpTo(MaxLayers), parameters \in Arguments : CaseAddParameters(i, parameters)
    \/ \E parameters \in Arguments : CasesAddParameters(parameters)

SpecObjects == InitObjects /\ [][NextObjects]_vars

\* the parameters of the i-th case of the collection, as they are read off it
ParametersOf(i) == [k \in 1..Len(references[i]) |-> objects[references[i][k]]]

\* the cases whose parameters read differently from what create_cases gave them
CasesChanged == {j \in 1..Len(cases) : ParametersOf(j) # cases[j].parameters}

(***************************************************************************)
(* C25: the parameters of distinct cases are independent copies: setting   *)
(* the name or the value of a parameter of one case changes the parameters *)
(* of no other case.                                                       *)
(***************************************************************************)
C25_ParametersAreIndependent ==
    /\ pc = "created" => CasesChanged = {}
    /\ edit.op \in {"name", "value"} => CasesChanged \subseteq {edit.case}

(***************************************************************************)
(* C27: Cases.add_parameters(p), p a sequence of Parameter objects or a    *)
(* mapping of names to values, appends the parameters of p, in order, to   *)
(* the parameters of every case of the collection, as Case.add_parameters  *)
(* does for one case.                                                      *)
(***************************************************************************)
\* the parameters of the i-th case as create_cases gave them, followed by those added
WithParametersAdded(i) == cases[i].parameters \o edit.parameters.items

C27_AddParametersToEveryCase ==
    /\ edit.op = "Case.add_parameters" =>
          \A i \in 1..Len(cases) :
              ParametersOf(i) = IF i = edit.case THEN WithParametersAdded(i)
                                                 ELSE cases[i].parameters
    /\ edit.op = "Cases.add_parameters" =>
          \A i \in 1..Len(cases) : ParametersOf(i) = WithParametersAdded(i)

(***************************************************************************)
(* C28: in is_valid a parameter with a falsy value counts as a missing     *)
(* value.  A case that has a filter expression and a parameter with a      *)
(* falsy value is invalid, for every action and whatever the expression    *)
(* would evaluate to, and the expression is not evaluated; create_cases    *)
(* with valid_only=True returns no such case and nothing below one.        *)
(***************************************************************************)
HasFilterExpression(c) == c.condition.present /\ c.condition.filter # NoFilter

HasFalsyValue(c) == \E i \in 1..Len(c.parameters) : Falsy(c.parameters[i].value)

\* what the action makes of the expression, were it evaluated
KeptByExpression(c) ==
    Decide(ActionOf(c.condition), FilterExpressionEvaluatesToTrue(c, c.condition.filter))

Ancestors == [k \in 1..(Len(stack) - 1) |-> stack[k + 1].base_case]

RootDirectory == stack[1].base_case.path

DistinctPathsPerLevel ==
    \A i, j \in 1..Len(cases) :
        (i # j /\ cases[i].level = cases[j].level) => cases[i].path # cases[j].path

PathAndLevelOfNewCase ==
    cases' # cases =>
        LET c == cases'[Len(cases')]
        IN  /\ c.path = RootDirectory \o [k \in 1..Len(Ancestors) |-> Ancestors[k].case] \o <<c.case>>
            /\ c.level = Len(Ancestors)
            /\ \A k \in 1..Len(Ancestors) : Ancestors[k] \in Range(cases) /\ Ancestors[k].level = k - 1

C26_PathAndLevel ==
    /\ []DistinctPathsPerLevel
    /\ [][PathAndLevelOfNewCase]_vars

\* two cases of level 1 with the same case name below different cases of level 0
C26_Witness ==
    /\ pc = "done"
    /\ \E i, j \in 1..Len(cases) :
          /\ cases[i].level = 1 /\ cases[j].level = 1
          /\ cases[i].case = cases[j].case
          /\ Front(cases[i].path) # Front(cases[j].path)
          /\ Len(cases[i].path) = 2

(***************************************************************************)
(* C29: in batch mode execute_command_set ends having executed every shell *)
(* command of the requested command set in the folder of every selected    *)
(* case that names it, one distinct command after the other in the order   *)
(* in which the commands first occur in the selected cases and their       *)
(* lists: every execution of an earlier command comes before every         *)
(* execution of a later one.  (No order is asked for among the folders of  *)
(* one command.)                                                           *)
(***************************************************************************)
\* the shell commands a case lists for the requested command set
RequestedCommandsOf(c) ==
    IF \E e \in c.command_sets : e.name = command_args.command_set
    THEN (CHOOSE e \in c.command_sets : e.name = command_args.command_set).commands
    ELSE <<>>

Names(c, shell_command) == shell_command \in Range(RequestedCommandsOf(c))

FirstCaseNaming(shell_command) ==
    CHOOSE i \in 1..Len(cases_registered) :
        /\ Names(cases_registered[i], shell_command)
        /\ \A j \in 1..(i - 1) : ~Names(cases_registered[j], shell_command)

FirstPlaceIn(c, shell_command) ==
    CHOOSE k \in 1..Len(RequestedCommandsOf(c)) :
        /\ RequestedCommandsOf(c)[k] = shell_command
        /\ \A l \in 1..(k - 1) : RequestedCommandsOf(c)[l] # shell_command

\* a command occurs first before another command does
OccursFirstBefore(a, b) ==
    LET i == FirstCaseNaming(a)
        j == FirstCaseNaming(b)
    IN  \/ i < j
        \/ i = j /\ FirstPlaceIn(cases_registered[i], a) < FirstPlaceIn(cases_registered[i], b)

C29_BatchesInOrderOfFirstOccurrence ==
    (Ended /\ command_args.batch) =>
        /\ dispatched.returned
        /\ \A i \in 1..Len(cases_registered) :
              \A shell_command \in Range(RequestedCommandsOf(cases_registered[i])) :
                  \E k \in 1..Len(executions) :
                      executions[k] = [shell_command |-> shell_command,
                                       path |-> cwd \o cases_registered[i].path]
        /\ \A k, l \in 1..Len(executions) :
              (/\ executions[k].shell_command # executions[l].shell_command
               /\ OccursFirstBefore(executions[k].shell_command, executions[l].shell_command))
                  => k < l

(***************************************************************************)
(* Specification of one sampler that is configured more than once: its     *)
(* type is set, then set_sampling_parameters is called on it again and     *)
(* again, with the same or with other parameters.                          *)
(***************************************************************************)
MaxCalls == 3

\* set_sampling_parameters on a sampler it has configured before.  The sampler is
\* configured again while it has fewer than MaxCalls fields: each call adds one
\* name at least, so no sampler is configured more than MaxCalls times.
SetSamplingParametersAgain ==
    /\ pc = "configured"
    /\ Len(sampling.fields) < MaxCalls
    /\ \E sampling_parameters \in ParameterSets(sampling.sampling_type) :
          /\ sampling' = set_sampling_parameters(sampling, sampling_parameters, "base")
          /\ raised' = set_sampling_parameters_raises(sampling_parameters)
          /\ logged' = set_sampling_parameters_logs(sampling, sampling_parameters)
          /\ pc' = IF set_sampling_parameters_raises(sampling_parameters) = "none"
                   THEN "configured" ELSE "failed"
    /\ call' = [op |-> "set_sampling_parameters", arg |-> ""]
    /\ UNCHANGED <<samples, engine_values, case_names_at>>
    /\ UNCHANGED <<layers, valid_only, cases, number_of_invalid_cases, stack>>
    /\ UnchangedFilter /\ UnchangedProbe /\ UnchangedMaterial /\ UnchangedDispatch /\ UnchangedObjects

NextReconfigure ==
    \/ \E sampling_type \in TypeNames : SetSamplingType(sampling_type)
    \/ SetSamplingParameters
    \/ SetSamplingParametersAgain

SpecReconfigure == InitSampling /\ [][NextReconfigure]_vars

(***************************************************************************)
(* C30: set_sampling_parameters appends the names of _names to the field   *)
(* list of the sampler and clears nothing: a call that returns leaves the  *)
(* fields of before followed by its names, and number_of_fields is the     *)
(* length of that list, the sum of the numbers of names of all calls.  It  *)
(* is the number of names of the last call only when the field list is     *)
(* the name list of that call, as after the first call.                    *)
(***************************************************************************)
NamesOfLastCall == sampling.sampling_parameters.names

FieldsCounted ==
    /\ pc = "new" => sampling.fields = <<>> /\ sampling.number_of_fields = 0
    /\ pc = "configured" =>
          /\ sampling.number_of_fields = Len(sampling.fields)
          /\ sampling.number_of_fields = Len(NamesOfLastCall)
                <=> sampling.fields = NamesOfLastCall

NamesAppended ==
    (pc \in {"typed", "configured"} /\ pc' = "configured") =>
        /\ sampling'.fields = sampling.fields \o sampling'.sampling_parameters.names
        /\ sampling'.number_of_fields =
              sampling.number_of_fields + Len(sampling'.sampling_parameters.names)

C30_FieldsAreAppended ==
    /\ []FieldsCounted
    /\ [][NamesAppended]_vars

\* three calls, with the name lists [x1], [x1], [x1, x2]
C30_Witness ==
    /\ pc = "configured"
    /\ sampling.fields = <<"x1", "x1", "x1", "x2">>
    /\ NamesOfLastCall = <<"x1", "x2">>
    /\ sampling.number_of_fields = 4

====
